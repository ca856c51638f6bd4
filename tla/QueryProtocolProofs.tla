------------------------ MODULE QueryProtocolProofs -------------------------
(***************************************************************************)
(* Theorems about QueryProtocol for any number of receivers, workers and   *)
(* bundles, any databases and any faults: what is on the way to a receiver *)
(* is what it waits for, as many packages come as it claims, and the       *)
(* conversation implements AbstractPSI.                                    *)
(***************************************************************************)
EXTENDS QueryProtocol, FiniteSetTheorems, SequenceTheorems, TLAPS

OpMsg   == [client_id : Receivers, type : {"parms", "oprf", "query"}, items : SUBSET Items,
            valid : BOOLEAN]
BackMsg == [type : {"parms", "oprf", "query", "result"}, count : Nat, items : SUBSET Items]

Types ==
    /\ db \in DBs
    /\ inbox \in [Receivers -> Seq(OpMsg)] /\ outbox \in [Receivers -> Seq(BackMsg)]
    /\ \A r \in Receivers : \A k \in DOMAIN inbox[r] : inbox[r][k].client_id = r
    /\ sop \in OpMsg
    /\ dpc \in {"poll", "dispatch", "announce", "powers", "join", "stopped"}
    /\ dpc = "announce" => sop.type = "query"
    /\ tasks \in Seq({"queued", "sent", "threw"})
    /\ tasks # <<>> => dpc = "join"
    /\ logged \subseteq Receivers
    /\ rpc \in [Receivers -> {"idle", "parms", "oprf", "query", "working", "threw"}]
    /\ package_count \in [Receivers -> Nat]
    /\ wpc \in [Receivers -> [Tasks -> {"none", "queued", "claim", "receive", "merge", "write",
                                        "exit", "threw"}]]

(***************************************************************************)
(* Where the operation of a receiver is: on its way, with the dispatcher   *)
(* and not yet answered, or answered as far as it will be.                 *)
(***************************************************************************)
Handled(r) == sop.client_id = r /\ dpc \in {"dispatch", "announce"}

Receiving(r) == Cardinality({w \in Tasks : wpc[r][w] = "receive"})

\* n packages are expected and come is the number of those on the way; after
\* an exception of the sender too few of them come.
Balanced(r, n, come) ==
    IF r \in logged THEN n > come + Unsent(r) ELSE n = come + Unsent(r)

AllResults(s, from) == \A k \in DOMAIN s : k >= from => s[k].type = "result"

Settled(r) == inbox[r] = <<>> /\ outbox[r] = <<>> /\ ~Handled(r) /\ Unsent(r) = 0

Requested(r) ==
    /\ Len(inbox[r]) = 1 /\ inbox[r][1].type = rpc[r]
    /\ outbox[r] = <<>> /\ ~Handled(r) /\ Unsent(r) = 0 /\ r \notin logged

InHand(r) ==
    /\ inbox[r] = <<>> /\ outbox[r] = <<>> /\ Handled(r) /\ sop.type = rpc[r] /\ r \notin logged

Answered(r) ==
    /\ inbox[r] = <<>> /\ Len(outbox[r]) = 1 /\ outbox[r][1].type = rpc[r]
    /\ ~Handled(r) /\ Unsent(r) = 0 /\ r \notin logged

Announced(r) ==
    /\ inbox[r] = <<>> /\ outbox[r] # <<>> /\ outbox[r][1].type = "query"
    /\ AllResults(outbox[r], 2) /\ ~Handled(r)
    /\ Balanced(r, outbox[r][1].count, Len(outbox[r]) - 1)

Working(r) ==
    /\ inbox[r] = <<>> /\ AllResults(outbox[r], 1) /\ ~Handled(r)
    /\ Balanced(r, package_count[r] + Receiving(r), Len(outbox[r]))
    /\ package_count[r] > 0 => wpc[r][1] \notin {"none", "exit"}

CallInv(r) ==
    /\ rpc[r] = "idle" => Settled(r) /\ r \notin logged
    /\ rpc[r] \in {"parms", "oprf"} => \/ Requested(r) \/ InHand(r) \/ Answered(r)
                                       \/ Settled(r) /\ r \in logged
    /\ rpc[r] = "query" => \/ Requested(r) \/ InHand(r) \/ Announced(r)
                           \/ Settled(r) /\ r \in logged
    /\ rpc[r] = "working" => Working(r)

Inv == Types /\ \A r \in Receivers : CallInv(r)
-----------------------------------------------------------------------------
LEMMA DBType ==
    ASSUME Types PROVE db.bundles \in Seq(SUBSET Items) /\ db.fault \in {"none", "stale", "eval"}
BY QueryProtocolAssumption DEF Types

LEMMA UnsentTasks ==
    ASSUME Types
    PROVE  LET left == {b \in DOMAIN tasks : tasks[b] # "sent"}
           IN  IsFiniteSet(left) /\ Cardinality(left) \in Nat
<1>1. IsFiniteSet(DOMAIN tasks)
    BY FS_Interval DEF Types
<1> QED
    BY <1>1, FS_Subset, FS_CardinalityType

LEMMA UnsentType ==
    ASSUME Types, NEW r PROVE Unsent(r) \in Nat
BY DBType, UnsentTasks DEF Unsent

LEMMA ReceivingType ==
    ASSUME NEW s
    PROVE  LET waiting == {w \in Tasks : s[w] = "receive"}
           IN  IsFiniteSet(waiting) /\ Cardinality(waiting) \in Nat
<1>1. IsFiniteSet(Tasks)
    BY FS_Interval, QueryProtocolAssumption DEF Tasks
<1> QED
    BY <1>1, FS_Subset, FS_CardinalityType

\* What a step leaves alone of one receiver's call.
Same(r) ==
    /\ inbox'[r] = inbox[r] /\ outbox'[r] = outbox[r] /\ rpc'[r] = rpc[r]
    /\ package_count'[r] = package_count[r] /\ wpc'[r] = wpc[r]
    /\ r \in logged' <=> r \in logged

LEMMA CallStays ==
    ASSUME NEW r \in Receivers, CallInv(r), Same(r),
           Handled(r)' <=> Handled(r), Unsent(r)' = Unsent(r), Handled(r) => sop' = sop
    PROVE  CallInv(r)'
<1>1. Receiving(r)' = Receiving(r)
    BY DEF Same, Receiving
<1>2. Settled(r)' <=> Settled(r)
    BY DEF Same, Settled
<1>3. Requested(r) => Requested(r)'
    BY DEF Same, Requested
<1>4. InHand(r) => InHand(r)'
    BY DEF Same, InHand
<1>5. Answered(r) => Answered(r)'
    BY DEF Same, Answered
<1>6. Announced(r) => Announced(r)'
    BY DEF Same, Announced, Balanced, AllResults
<1>7. Working(r) => Working(r)'
    BY <1>1 DEF Same, Working, Balanced, AllResults
<1> QED
    BY <1>2, <1>3, <1>4, <1>5, <1>6, <1>7 DEF CallInv, Same

\* A step of receiver r, or on its behalf, touches no other call.
LEMMA OtherCalls ==
    ASSUME \A x \in Receivers : CallInv(x), NEW r \in Receivers, CallInv(r)',
           \A x \in Receivers : x # r => Same(x),
           \/ UNCHANGED <<db, dpc, sop, tasks>>
           \/ sop' = sop /\ sop.client_id = r
    PROVE  \A x \in Receivers : CallInv(x)'
<1> SUFFICES ASSUME NEW x \in Receivers, x # r PROVE CallInv(x)'
    BY Zenon
<1>1. CASE UNCHANGED <<db, dpc, sop, tasks>>
    BY <1>1, CallStays DEF Handled, Unsent
<1>2. CASE sop' = sop /\ sop.client_id = r
    BY <1>2, CallStays DEF Handled, Unsent
<1> QED
    BY <1>1, <1>2
-----------------------------------------------------------------------------
LEMMA InvInit == Init => Inv
<1> SUFFICES ASSUME Init PROVE Inv
    OBVIOUS
<1>1. Types
    <2>1. PICK r \in Receivers : sop = Operation(r, "parms")
        BY DEF Init
    <2>2. sop \in OpMsg
        BY <2>1 DEF Operation, OpMsg
    <2> QED
        BY <2>2 DEF Init, Types
<1>2. ASSUME NEW r \in Receivers PROVE CallInv(r)
    BY DEF Init, CallInv, Settled, Handled, Unsent
<1> QED
    BY <1>1, <1>2 DEF Inv
-----------------------------------------------------------------------------
(***************************************************************************)
(* Steps of the sender.                                                    *)
(***************************************************************************)
LEMMA UpdateDBInv == ASSUME Inv, UpdateDB PROVE Inv'
<1>1. Types'
    BY DEF UpdateDB, Inv, Types, senderVars, recvVars, resultVars
<1>2. ASSUME NEW r \in Receivers PROVE CallInv(r)'
    <2>1. Same(r) /\ sop' = sop
        BY DEF UpdateDB, Same, senderVars, recvVars, resultVars
    <2>2. Handled(r)' <=> Handled(r)
        BY DEF UpdateDB, Handled, senderVars
    <2>3. Unsent(r)' = Unsent(r)
        BY DEF UpdateDB, Unsent, senderVars
    <2> QED
        BY <2>1, <2>2, <2>3, CallStays DEF Inv
<1> QED
    BY <1>1, <1>2 DEF Inv

LEMMA StopInv == ASSUME Inv, Stop PROVE Inv'
<1>1. Types'
    BY DEF Stop, Inv, Types, recvVars, resultVars
<1>2. ASSUME NEW r \in Receivers PROVE CallInv(r)'
    <2>1. Same(r) /\ sop' = sop
        BY DEF Stop, Same, recvVars, resultVars
    <2>2. Handled(r)' <=> Handled(r)
        BY DEF Stop, Handled
    <2>3. Unsent(r)' = Unsent(r)
        BY DEF Stop, Unsent
    <2> QED
        BY <2>1, <2>2, <2>3, CallStays DEF Inv
<1> QED
    BY <1>1, <1>2 DEF Inv

LEMMA ReceiveOperationInv ==
    ASSUME Inv, NEW r \in Receivers, ReceiveOperation(r) PROVE Inv'
<1> USE DEF ReceiveOperation, recvVars, resultVars
<1>1. /\ inbox[r] \in Seq(OpMsg) /\ inbox[r] # <<>>
      /\ inbox \in [Receivers -> Seq(OpMsg)]
    BY DEF Inv, Types
<1>2. /\ Head(inbox[r]) = inbox[r][1] /\ inbox[r][1] \in OpMsg /\ 1 \in DOMAIN inbox[r]
      /\ Tail(inbox[r]) \in Seq(OpMsg)
      /\ \A k \in DOMAIN Tail(inbox[r]) : k + 1 \in DOMAIN inbox[r] /\ Tail(inbox[r])[k] = inbox[r][k + 1]
    BY <1>1
<1>3. sop' = inbox[r][1] /\ sop'.client_id = r /\ sop' \in OpMsg
    BY <1>2 DEF Inv, Types
<1>4. inbox' \in [Receivers -> Seq(OpMsg)]
    BY <1>1, <1>2
<1>5. \A x \in Receivers : \A k \in DOMAIN inbox'[x] : inbox'[x][k].client_id = x
    <2>1. \A x \in Receivers : inbox'[x] = IF x = r THEN Tail(inbox[r]) ELSE inbox[x]
        BY <1>1
    <2> QED
        BY <1>2, <2>1 DEF Inv, Types
<1>6. Types'
    BY <1>3, <1>4, <1>5 DEF Inv, Types
<1>7. CallInv(r)'
    <2>1. CASE rpc[r] \in {"parms", "oprf", "query"}
        <3>1. dpc = "poll" /\ ~InHand(r)
            BY DEF InHand, Handled
        <3>2. Requested(r)
            BY <1>1, <2>1, <3>1 DEF Inv, CallInv, Answered, Announced, Settled
        <3>3. inbox'[r] = <<>>
            <4>1. inbox'[r] = Tail(inbox[r])
                BY <1>1
            <4> QED
                BY <1>1, <3>2, <4>1 DEF Requested
        <3>4. InHand(r)'
            BY <1>3, <3>2, <3>3 DEF InHand, Requested, Handled
        <3> QED
            BY <2>1, <3>4 DEF CallInv
    <2>2. CASE rpc[r] \notin {"parms", "oprf", "query"}
        <3>1. rpc[r] = "threw"
            BY <1>1, <2>2 DEF Inv, CallInv, Types, Settled, Working
        <3> QED
            BY <3>1 DEF CallInv
    <2> QED
        BY <2>1, <2>2
<1>8. ASSUME NEW x \in Receivers, x # r PROVE CallInv(x)'
    <2>1. Same(x)
        BY <1>1, <1>8 DEF Same
    <2>2. ~Handled(x) /\ ~Handled(x)' /\ Unsent(x) = 0 /\ Unsent(x)' = 0
        BY <1>3, <1>8 DEF Handled, Unsent
    <2> QED
        BY <2>1, <2>2, CallStays DEF Inv
<1> QED
    BY <1>6, <1>7, <1>8 DEF Inv

\* A message to the receiver that is served.
LEMMA Sends ==
    ASSUME Types, NEW msg \in BackMsg, SendTo(sop.client_id, msg)
    PROVE  LET r == sop.client_id
           IN  /\ r \in Receivers /\ outbox' \in [Receivers -> Seq(BackMsg)]
               /\ outbox[r] \in Seq(BackMsg) /\ outbox'[r] = Append(outbox[r], msg)
               /\ \A x \in Receivers : x # r => outbox'[x] = outbox[x]
BY DEF Types, SendTo, OpMsg

LEMMA AnswerRequestInv == ASSUME Inv, RunRequest, sop.valid PROVE Inv'
<1> USE DEF RunRequest, recvVars, resultVars
<1> DEFINE r == sop.client_id
           msg == Response(sop.type, 0)
<1>0. msg \in BackMsg /\ msg.type = sop.type
    BY DEF Response, BackMsg
<1> HIDE DEF msg
<1>1. /\ r \in Receivers /\ outbox' \in [Receivers -> Seq(BackMsg)]
      /\ outbox'[r] = Append(outbox[r], msg)
      /\ \A x \in Receivers : x # r => outbox'[x] = outbox[x]
    BY <1>0, Sends DEF Inv, msg
<1>2. Types'
    BY <1>1 DEF Inv, Types
<1>3. CallInv(r)'
    <2>1. Handled(r)
        BY DEF Handled
    <2>2. rpc[r] = "threw" \/ (rpc[r] \in {"parms", "oprf", "query"} /\ InHand(r))
        BY <1>1, <2>1 DEF Inv, Types, CallInv, Settled, Requested, Answered, Announced, Working
    <2>3. CASE rpc[r] = "threw"
        BY <2>3 DEF CallInv
    <2>4. CASE InHand(r)
        <3>1. rpc[r] = sop.type /\ sop.type \in {"parms", "oprf"} /\ outbox'[r] = <<msg>>
            BY <1>1, <2>4 DEF InHand
        <3>2. ~Handled(r)' /\ Unsent(r)' = 0
            BY DEF Handled, Unsent
        <3>3. Answered(r)'
            BY <1>0, <2>4, <3>1, <3>2 DEF Answered, InHand
        <3> QED
            BY <3>1, <3>3 DEF CallInv
    <2> QED
        BY <2>2, <2>3, <2>4
<1>4. \A x \in Receivers : x # r => Same(x)
    BY <1>1 DEF Same
<1>5. \A x \in Receivers : CallInv(x)'
    BY <1>1, <1>3, <1>4, OtherCalls DEF Inv
<1> QED
    BY <1>2, <1>5 DEF Inv

\* Who is served by the dispatcher has not got an answer yet, or has a query.
LEMMA Served ==
    ASSUME Inv, NEW r \in Receivers, Handled(r)
    PROVE  rpc[r] = "threw" \/ (rpc[r] = sop.type /\ InHand(r))
BY DEF Inv, Types, CallInv, Settled, Requested, InHand, Answered, Announced, Working

LEMMA Owes ==
    ASSUME Inv, NEW r \in Receivers, Unsent(r) # 0
    PROVE  rpc[r] = "threw" \/ (rpc[r] = "query" /\ Announced(r)) \/ (rpc[r] = "working" /\ Working(r))
<1>1. ~InHand(r)
    BY DEF InHand, Handled, Unsent
<1> QED
    BY <1>1 DEF Inv, Types, CallInv, Settled, Requested, Answered

\* An operation the dispatcher gives up before anything is sent.
LEMMA RefusedInv ==
    ASSUME Inv, dpc = "dispatch", Abandon, UNCHANGED <<db, inbox, outbox, sop, tasks, recvVars>>
    PROVE  Inv'
<1> USE DEF Abandon, recvVars, resultVars
<1> DEFINE r == sop.client_id
<1>1. r \in Receivers /\ Handled(r)
    BY DEF Inv, Types, OpMsg, Handled
<1>2. Types'
    BY <1>1 DEF Inv, Types
<1>3. CallInv(r)'
    <2>1. CASE rpc[r] = "threw"
        BY <2>1 DEF CallInv
    <2>2. CASE rpc[r] \in {"parms", "oprf", "query"} /\ InHand(r)
        BY <2>2 DEF CallInv, InHand, Settled, Handled, Unsent
    <2>3. sop.type \in {"parms", "oprf", "query"}
        BY DEF Inv, Types, OpMsg
    <2> QED
        BY <1>1, <2>1, <2>2, <2>3, Served
<1>4. \A x \in Receivers : x # r => Same(x)
    BY DEF Same
<1>5. \A x \in Receivers : CallInv(x)'
    BY <1>1, <1>3, <1>4, OtherCalls DEF Inv
<1> QED
    BY <1>2, <1>5 DEF Inv

LEMMA RunRequestInv == ASSUME Inv, RunRequest PROVE Inv'
BY AnswerRequestInv, RefusedInv DEF RunRequest

LEMMA StartQueryInv == ASSUME Inv, StartQuery PROVE Inv'
<1> USE DEF StartQuery, recvVars, resultVars
<1>1. CASE sop.valid
    <2> DEFINE r == sop.client_id
    <2>1. r \in Receivers /\ Handled(r)
        BY DEF Inv, Types, OpMsg, Handled
    <2>2. Types'
        BY <1>1, <2>1 DEF Inv, Types
    <2>3. CallInv(r)'
        BY <1>1, <2>1, Served DEF CallInv, InHand, Handled
    <2>4. \A x \in Receivers : x # r => Same(x)
        BY <1>1 DEF Same
    <2> QED
        BY <2>1, <2>2, <2>3, <2>4, OtherCalls DEF Inv
<1>2. CASE ~sop.valid
    BY <1>2, RefusedInv
<1> QED
    BY <1>1, <1>2

LEMMA AnnounceInv == ASSUME Inv, Announce PROVE Inv'
<1> USE DEF Announce, recvVars, resultVars
<1> DEFINE r == sop.client_id
           n == Len(db.bundles)
           msg == Response("query", n)
<1>0. n \in Nat /\ msg \in BackMsg /\ msg.type = "query" /\ msg.count = n
    BY DBType DEF Response, BackMsg, Inv
<1> HIDE DEF msg
<1>1. /\ r \in Receivers /\ outbox' \in [Receivers -> Seq(BackMsg)]
      /\ outbox'[r] = Append(outbox[r], msg)
      /\ \A x \in Receivers : x # r => outbox'[x] = outbox[x]
    BY <1>0, Sends DEF Inv, msg
<1>2. Types'
    BY <1>1 DEF Inv, Types
<1>3. CallInv(r)'
    <2>1. Handled(r) /\ sop.type = "query"
        BY DEF Handled, Inv, Types
    <2>2. CASE rpc[r] = "threw"
        BY <2>2 DEF CallInv
    <2>3. CASE rpc[r] = "query" /\ InHand(r)
        <3>1. outbox'[r] = <<msg>>
            BY <1>1, <2>3 DEF InHand
        <3>2. ~Handled(r)' /\ Unsent(r)' = n
            BY DEF Handled, Unsent
        <3>3. Len(outbox'[r]) = 1 /\ outbox'[r][1] = msg /\ outbox'[r] # <<>>
              /\ AllResults(outbox'[r], 2)
            BY <3>1 DEF AllResults
        <3>4. Announced(r)'
            BY <1>0, <2>3, <3>2, <3>3 DEF Announced, Balanced, InHand
        <3> QED
            BY <2>3, <3>4 DEF CallInv
    <2> QED
        BY <1>1, <2>1, <2>2, <2>3, Served
<1>4. \A x \in Receivers : x # r => Same(x)
    BY <1>1 DEF Same
<1>5. \A x \in Receivers : CallInv(x)'
    BY <1>1, <1>3, <1>4, OtherCalls DEF Inv
<1> QED
    BY <1>2, <1>5 DEF Inv

\* The sender gives up on a query of which it owes packages.
LEMMA GivesUp ==
    ASSUME Inv, NEW r \in Receivers, Unsent(r) # 0, Unsent(r)' = 0, ~Handled(r)',
           UNCHANGED <<inbox, outbox, rpc, package_count, wpc>>, logged' = logged \cup {r}
    PROVE  CallInv(r)'
<1>1. Unsent(r) \in Nat /\ Unsent(r) > 0
    BY UnsentType DEF Inv
<1>2. CASE rpc[r] = "threw"
    BY <1>2 DEF CallInv
<1>3. CASE rpc[r] = "query" /\ Announced(r)
    <2>1. /\ outbox[r] \in Seq(BackMsg) /\ outbox[r] # <<>>
        BY <1>3 DEF Inv, Types, Announced
    <2>2. outbox[r][1] \in BackMsg /\ Len(outbox[r]) \in Nat
        BY <2>1
    <2>a. outbox[r][1].count \in Nat
        BY <2>2 DEF BackMsg
    <2>3. Balanced(r, outbox[r][1].count, Len(outbox[r]) - 1)'
        BY <1>1, <1>3, <2>2, <2>a DEF Announced, Balanced
    <2> QED
        BY <1>3, <2>3 DEF CallInv, Announced
<1>4. CASE rpc[r] = "working" /\ Working(r)
    <2>1. Receiving(r)' = Receiving(r) /\ Receiving(r) \in Nat
        BY ReceivingType DEF Receiving
    <2>2. package_count[r] \in Nat /\ Len(outbox[r]) \in Nat
        BY DEF Inv, Types
    <2>3. Balanced(r, package_count[r] + Receiving(r), Len(outbox[r]))'
        BY <1>1, <1>4, <2>1, <2>2 DEF Working, Balanced
    <2> QED
        BY <1>4, <2>3 DEF CallInv, Working
<1> QED
    BY <1>2, <1>3, <1>4, Owes

LEMMA ComputePowersInv == ASSUME Inv, ComputePowers PROVE Inv'
<1> USE DEF ComputePowers, recvVars, resultVars
<1> DEFINE r == sop.client_id
           n == Len(db.bundles)
<1>1. r \in Receivers /\ n \in Nat /\ DOMAIN db.bundles = 1 .. n /\ (n = 0 <=> db.bundles = <<>>)
    <2>1. r \in Receivers
        BY DEF Inv, Types, OpMsg
    <2>2. db.bundles \in Seq(SUBSET Items)
        BY DBType DEF Inv
    <2> QED
        BY <2>1, <2>2
<1>2. Unsent(r) = n /\ ~Handled(r)
    BY DEF Unsent, Handled
<1>3. UNCHANGED <<db, inbox, outbox, sop, rpc, package_count, wpc>>
    OBVIOUS
<1>4. CASE db.bundles # <<>> /\ db.fault = "stale"
    <2>1. dpc' = "poll" /\ logged' = logged \cup {r} /\ tasks' = tasks
        BY <1>4 DEF Abandon
    <2>2. tasks = <<>>
        BY DEF Inv, Types
    <2>3. Types'
        BY <1>1, <1>3, <2>1, <2>2 DEF Inv, Types
    <2>4. Unsent(r)' = 0 /\ ~Handled(r)'
        BY <1>3, <2>1 DEF Unsent, Handled
    <2>5. CallInv(r)'
        BY <1>1, <1>2, <1>3, <1>4, <2>1, <2>4, GivesUp
    <2>6. \A x \in Receivers : x # r => Same(x)
        BY <1>3, <2>1 DEF Same
    <2> QED
        BY <1>1, <1>3, <2>3, <2>5, <2>6, OtherCalls DEF Inv
<1>5. CASE ~(db.bundles # <<>> /\ db.fault = "stale")
    <2>1. /\ tasks' = [b \in 1 .. n |-> "queued"] /\ dpc' = "join" /\ logged' = logged
        BY <1>1, <1>5
    <2>2. tasks' \in Seq({"queued", "sent", "threw"})
        BY <1>1, <2>1
    <2>3. Types'
        BY <1>3, <2>1, <2>2 DEF Inv, Types
    <2>4. {b \in DOMAIN tasks' : tasks'[b] # "sent"} = 1 .. n
        BY <2>1
    <2>5. Cardinality(1 .. n) = n
        BY <1>1, FS_Interval
    <2>6. Unsent(r)' = Unsent(r) /\ ~Handled(r)'
        BY <1>2, <1>3, <2>1, <2>4, <2>5 DEF Unsent, Handled
    <2>7. \A x \in Receivers : Same(x)
        BY <1>3, <2>1 DEF Same
    <2>8. CallInv(r)'
        BY <1>1, <1>2, <2>6, <2>7, CallStays DEF Inv
    <2> QED
        BY <1>1, <1>3, <2>3, <2>7, <2>8, OtherCalls DEF Inv
<1> QED
    BY <1>4, <1>5

\* The sender gives a package that it owes to the channel.
LEMMA Pays ==
    ASSUME Inv, NEW r \in Receivers, NEW msg \in BackMsg, msg.type = "result",
           outbox'[r] = Append(outbox[r], msg),
           Unsent(r) # 0, Unsent(r)' = Unsent(r) - 1, ~Handled(r)',
           UNCHANGED <<inbox, rpc, package_count, wpc, logged>>
    PROVE  CallInv(r)'
<1>1. Unsent(r) \in Nat /\ Unsent(r) > 0
    BY UnsentType DEF Inv
<1>2. outbox[r] \in Seq(BackMsg) /\ package_count[r] \in Nat
    BY DEF Inv, Types
<1>3. /\ Len(outbox'[r]) = Len(outbox[r]) + 1 /\ Len(outbox[r]) \in Nat
      /\ outbox'[r] # <<>> /\ DOMAIN outbox'[r] = 1 .. Len(outbox[r]) + 1
      /\ \A k \in 1 .. Len(outbox[r]) : outbox'[r][k] = outbox[r][k]
      /\ outbox'[r][Len(outbox[r]) + 1] = msg
    BY <1>2
<1>4. ASSUME NEW from \in Nat, AllResults(outbox[r], from) PROVE AllResults(outbox[r], from)'
    BY <1>2, <1>3, <1>4 DEF AllResults
<1>5. CASE rpc[r] = "threw"
    BY <1>5 DEF CallInv
<1>6. CASE rpc[r] = "query" /\ Announced(r)
    <2>1. outbox[r][1] \in BackMsg /\ outbox'[r][1] = outbox[r][1]
        BY <1>2, <1>3, <1>6 DEF Announced
    <2>2. outbox[r][1].count \in Nat
        BY <2>1 DEF BackMsg
    <2>3. Balanced(r, outbox[r][1].count, Len(outbox[r]) - 1)'
        <3>1. Balanced(r, outbox[r][1].count, Len(outbox[r]) - 1)
            BY <1>6 DEF Announced
        <3>2. /\ outbox'[r][1].count = outbox[r][1].count
              /\ Len(outbox'[r]) - 1 = (Len(outbox[r]) - 1) + 1 /\ Len(outbox[r]) - 1 \in Int
            BY <1>3, <2>1
        <3> QED
            BY <1>1, <2>2, <3>1, <3>2 DEF Balanced
    <2>4. AllResults(outbox[r], 2)'
        BY <1>4, <1>6 DEF Announced
    <2>5. Announced(r)'
        BY <1>3, <1>6, <2>1, <2>3, <2>4 DEF Announced
    <2> QED
        BY <1>6, <2>5 DEF CallInv
<1>7. CASE rpc[r] = "working" /\ Working(r)
    <2>1. Receiving(r)' = Receiving(r) /\ Receiving(r) \in Nat
        BY ReceivingType DEF Receiving
    <2>2. Balanced(r, package_count[r] + Receiving(r), Len(outbox[r]))'
        BY <1>1, <1>2, <1>3, <1>7, <2>1 DEF Working, Balanced
    <2>3. AllResults(outbox[r], 1)'
        BY <1>4, <1>7 DEF Working
    <2>4. Working(r)'
        BY <1>7, <2>2, <2>3 DEF Working
    <2> QED
        BY <1>7, <2>4 DEF CallInv
<1> QED
    BY <1>5, <1>6, <1>7, Owes

LEMMA ProcessBinBundleCacheInv ==
    ASSUME Inv, NEW b \in DOMAIN tasks, ProcessBinBundleCache(b) PROVE Inv'
<1> USE DEF ProcessBinBundleCache, recvVars, resultVars
<1> DEFINE r == sop.client_id
           msg == ResultPackage(Matches(b))
           left == {c \in DOMAIN tasks : tasks[c] # "sent"}
<1>0. msg \in BackMsg /\ msg.type = "result"
    <2>1. Matches(b) \subseteq Items
        BY DEF Inv, Types, OpMsg, Matches
    <2> QED
        BY <2>1 DEF ResultPackage, BackMsg
<1> HIDE DEF msg
<1>1. /\ r \in Receivers /\ outbox' \in [Receivers -> Seq(BackMsg)]
      /\ outbox[r] \in Seq(BackMsg) /\ outbox'[r] = Append(outbox[r], msg)
      /\ \A x \in Receivers : x # r => outbox'[x] = outbox[x]
    BY <1>0, Sends DEF Inv, msg
<1>2. Types'
    BY <1>1 DEF Inv, Types
<1>3. /\ b \in left /\ {c \in DOMAIN tasks' : tasks'[c] # "sent"} = left \ {b}
      /\ IsFiniteSet(left) /\ Cardinality(left) \in Nat
    BY UnsentTasks DEF Inv, Types
<1>4. Unsent(r) # 0 /\ Unsent(r)' = Unsent(r) - 1
    <2>1. Cardinality(left \ {b}) = Cardinality(left) - 1 /\ Cardinality(left) # 0
        BY <1>3, FS_RemoveElement, FS_EmptySet
    <2> HIDE DEF left
    <2>2. Unsent(r)' = Cardinality(left \ {b})
        BY <1>3 DEF Unsent
    <2>3. Unsent(r) = Cardinality(left)
        BY DEF Unsent, left
    <2> QED
        BY <2>1, <2>2, <2>3
<1>5. CallInv(r)'
    <2>1. ~Handled(r)'
        BY DEF Handled
    <2>2. UNCHANGED <<inbox, rpc, package_count, wpc, logged>>
        OBVIOUS
    <2>3. PICK x \in Receivers : x = sop.client_id
        BY <1>1
    <2>4. ~Handled(x)' /\ outbox'[x] = Append(outbox[x], msg)
        BY <1>1, <2>3 DEF Handled
    <2>5. Unsent(x) # 0 /\ Unsent(x)' = Unsent(x) - 1
        BY <1>4, <2>3
    <2>6. CallInv(x)'
        BY <1>0, <2>2, <2>4, <2>5, Pays
    <2> QED
        BY <2>3, <2>6
<1>6. \A x \in Receivers : x # r => Same(x)
    BY <1>1 DEF Same
<1>7. \A x \in Receivers : CallInv(x)'
    BY <1>1, <1>5, <1>6, OtherCalls DEF Inv
<1> QED
    BY <1>2, <1>7 DEF Inv

LEMMA ProcessThrowsInv ==
    ASSUME Inv, NEW b \in DOMAIN tasks, ProcessThrows(b) PROVE Inv'
<1> USE DEF ProcessThrows, recvVars, resultVars
<1>1. Types'
    BY DEF Inv, Types
<1>2. {c \in DOMAIN tasks' : tasks'[c] # "sent"} = {c \in DOMAIN tasks : tasks[c] # "sent"}
    BY DEF Inv, Types
<1>3. ASSUME NEW r \in Receivers PROVE CallInv(r)'
    <2>1. Same(r) /\ (Handled(r)' <=> Handled(r))
        BY DEF Same, Handled
    <2>2. Unsent(r)' = Unsent(r)
        BY <1>2 DEF Unsent
    <2> QED
        BY <2>1, <2>2, CallStays DEF Inv
<1> QED
    BY <1>1, <1>3 DEF Inv

LEMMA JoinTasksInv == ASSUME Inv, JoinTasks PROVE Inv'
<1> USE DEF JoinTasks, recvVars, resultVars
<1> DEFINE r == sop.client_id
           left == {b \in DOMAIN tasks : tasks[b] # "sent"}
<1>1. r \in Receivers
    BY DEF Inv, Types, OpMsg
<1>2. /\ UNCHANGED <<db, inbox, outbox, sop, rpc, package_count, wpc>> /\ dpc' = "poll"
      /\ tasks' = <<>> /\ logged' \in {logged, logged \cup {r}}
    BY DEF Abandon
<1>3. Types'
    BY <1>1, <1>2 DEF Inv, Types
<1>4. Unsent(r) = Cardinality(left) /\ Unsent(r)' = 0 /\ ~Handled(r) /\ ~Handled(r)'
    BY <1>2 DEF Unsent, Handled
<1>5. \A x \in Receivers : x # r => Same(x)
    BY <1>2 DEF Same
<1>6. CallInv(r)'
    <2>1. CASE \A b \in DOMAIN tasks : tasks[b] = "sent"
        <3>1. left = {} /\ logged' = logged
            BY <2>1
        <3>2. Unsent(r) = 0
            BY <1>4, <3>1, FS_EmptySet
        <3>3. Same(r)
            BY <1>2, <3>1 DEF Same
        <3> QED
            BY <1>1, <1>2, <1>4, <3>2, <3>3, CallStays DEF Inv
    <2>2. CASE ~ \A b \in DOMAIN tasks : tasks[b] = "sent"
        <3>1. left # {} /\ logged' = logged \cup {r}
            BY <2>2 DEF Abandon
        <3>2. Unsent(r) # 0
            BY <1>4, <3>1, UnsentTasks, FS_EmptySet DEF Inv
        <3> QED
            BY <1>1, <1>2, <1>4, <3>1, <3>2, GivesUp
    <2> QED
        BY <2>1, <2>2
<1>7. \A x \in Receivers : CallInv(x)'
    BY <1>1, <1>2, <1>5, <1>6, OtherCalls DEF Inv
<1> QED
    BY <1>3, <1>7 DEF Inv
-----------------------------------------------------------------------------
(***************************************************************************)
(* Steps of the receivers.                                                 *)
(***************************************************************************)
\* A call puts one operation on the way.
LEMMA CallStarts ==
    ASSUME Inv, NEW r \in Receivers, rpc[r] = "idle", NEW type \in {"parms", "oprf", "query"},
           NEW op \in OpMsg, op.client_id = r, op.type = type,
           rpc' = [rpc EXCEPT ![r] = type], inbox' = [inbox EXCEPT ![r] = Append(@, op)],
           UNCHANGED <<db, outbox, senderVars, resultVars>>
    PROVE  Inv'
<1> USE DEF senderVars, resultVars
<1>1. inbox[r] = <<>> /\ outbox[r] = <<>> /\ ~Handled(r) /\ Unsent(r) = 0 /\ r \notin logged
    BY DEF Inv, CallInv, Settled
<1>2. /\ inbox \in [Receivers -> Seq(OpMsg)] /\ inbox'[r] = <<op>>
      /\ \A x \in Receivers : x # r => inbox'[x] = inbox[x]
      /\ rpc'[r] = type /\ \A x \in Receivers : x # r => rpc'[x] = rpc[x]
    BY <1>1 DEF Inv, Types
<1>3. /\ inbox' \in [Receivers -> Seq(OpMsg)] /\ rpc' \in [Receivers -> {"idle", "parms", "oprf", "query", "working", "threw"}]
      /\ \A x \in Receivers : \A k \in DOMAIN inbox'[x] : inbox'[x][k].client_id = x
    BY <1>2 DEF Inv, Types
<1>4. Types'
    BY <1>3 DEF Inv, Types
<1>5. ~Handled(r)' /\ Unsent(r)' = 0
    BY <1>1 DEF Handled, Unsent
<1>6. Requested(r)'
    BY <1>1, <1>2, <1>5 DEF Requested
<1>7. CallInv(r)'
    BY <1>2, <1>6 DEF CallInv
<1>8. \A x \in Receivers : x # r => Same(x)
    BY <1>2 DEF Same
<1>9. \A x \in Receivers : CallInv(x)'
    BY <1>7, <1>8, OtherCalls DEF Inv
<1> QED
    BY <1>4, <1>9 DEF Inv

LEMMA RequestInv ==
    ASSUME Inv, NEW r \in Receivers, NEW type \in {"parms", "oprf"}, NEW valid \in BOOLEAN,
           Request(r, type, valid)
    PROVE  Inv'
<1> DEFINE op == [Operation(r, type) EXCEPT !.valid = valid]
<1>1. op \in OpMsg /\ op.client_id = r /\ op.type = type
    BY DEF Operation, OpMsg
<1> QED
    BY <1>1, CallStarts DEF Request, CallEnabled

LEMMA RequestQueryInv ==
    ASSUME Inv, NEW r \in Receivers, NEW q \in Queries, NEW valid \in BOOLEAN,
           RequestQuery(r, q, valid)
    PROVE  Inv'
<1> DEFINE op == [Operation(r, "query") EXCEPT !.items = ToSet(q), !.valid = valid]
<1>1. ToSet(q) \subseteq Items
    BY QueryProtocolAssumption DEF ToSet
<1>2. op \in OpMsg /\ op.client_id = r /\ op.type = "query"
    BY <1>1 DEF Operation, OpMsg
<1>3. /\ rpc[r] = "idle" /\ rpc' = [rpc EXCEPT ![r] = "query"]
      /\ inbox' = [inbox EXCEPT ![r] = Append(@, op)]
      /\ UNCHANGED <<db, outbox, senderVars, resultVars>>
    BY DEF RequestQuery, CallEnabled
<1> QED
    BY <1>2, <1>3, CallStarts

\* The head of the channel and what it leaves.
LEMMA Receives ==
    ASSUME Types, NEW r \in Receivers, outbox[r] # <<>>, Receive(r)
    PROVE  /\ outbox' \in [Receivers -> Seq(BackMsg)] /\ outbox'[r] = Tail(outbox[r])
           /\ \A x \in Receivers : x # r => outbox'[x] = outbox[x]
           /\ Head(outbox[r]) = outbox[r][1] /\ outbox[r][1] \in BackMsg /\ 1 \in DOMAIN outbox[r]
           /\ outbox[r][1].type \in {"parms", "oprf", "query", "result"} /\ outbox[r][1].count \in Nat
           /\ Len(outbox'[r]) = Len(outbox[r]) - 1 /\ Len(outbox[r]) \in Nat \ {0}
           /\ \A from \in Nat : AllResults(outbox[r], from + 1) => AllResults(outbox'[r], from)
<1>1. outbox[r] \in Seq(BackMsg) /\ outbox'[r] = Tail(outbox[r])
    BY DEF Types, Receive
<1>2. /\ Head(outbox[r]) = outbox[r][1] /\ outbox[r][1] \in BackMsg /\ 1 \in DOMAIN outbox[r]
      /\ Tail(outbox[r]) \in Seq(BackMsg)
      /\ Len(Tail(outbox[r])) = Len(outbox[r]) - 1 /\ Len(outbox[r]) \in Nat \ {0}
      /\ \A k \in DOMAIN Tail(outbox[r]) : /\ k \in Nat /\ k + 1 \in DOMAIN outbox[r]
                                           /\ Tail(outbox[r])[k] = outbox[r][k + 1]
    BY <1>1
<1>3. outbox[r][1].type \in {"parms", "oprf", "query", "result"} /\ outbox[r][1].count \in Nat
    BY <1>2 DEF BackMsg
<1>4. outbox' \in [Receivers -> Seq(BackMsg)] /\ \A x \in Receivers : x # r => outbox'[x] = outbox[x]
    BY <1>2 DEF Types, Receive
<1>5. \A from \in Nat : AllResults(outbox[r], from + 1) => AllResults(outbox'[r], from)
    BY <1>1, <1>2 DEF AllResults
<1> QED
    BY <1>1, <1>2, <1>3, <1>4, <1>5

\* Who waits for a response receives the one it waits for.
LEMMA AwaitResponseInv ==
    ASSUME Inv, NEW r \in Receivers, AwaitResponse(r) PROVE Inv'
<1> USE DEF senderVars, resultVars
<1> DEFINE msg == outbox[r][1]
<1>0. rpc[r] \in {"parms", "oprf", "query"} /\ outbox[r] # <<>> /\ Receive(r)
    BY DEF AwaitResponse
<1>1. /\ outbox' \in [Receivers -> Seq(BackMsg)]
      /\ \A x \in Receivers : x # r => outbox'[x] = outbox[x]
      /\ Head(outbox[r]) = msg /\ msg \in BackMsg /\ msg.count \in Nat
      /\ Len(outbox'[r]) = Len(outbox[r]) - 1 /\ Len(outbox[r]) \in Nat \ {0}
      /\ \A from \in Nat : AllResults(outbox[r], from + 1) => AllResults(outbox'[r], from)
    BY <1>0, Receives DEF Inv
<1>2. \/ rpc[r] \in {"parms", "oprf", "query"} /\ Answered(r) /\ rpc[r] # "query"
      \/ rpc[r] = "query" /\ Announced(r)
    BY <1>0 DEF Inv, CallInv, Requested, InHand, Settled, Answered
<1>3. msg.type = rpc[r]
    BY <1>2 DEF Answered, Announced
<1>4. /\ rpc' = [rpc EXCEPT ![r] = IF rpc[r] = "query" THEN "working" ELSE "idle"]
      /\ UNCHANGED <<db, inbox, dpc, sop, tasks, logged>>
    BY <1>0, <1>1, <1>3 DEF AwaitResponse
<1>5. /\ rpc'[r] = (IF rpc[r] = "query" THEN "working" ELSE "idle")
      /\ \A x \in Receivers : x # r => rpc'[x] = rpc[x]
      /\ rpc' \in [Receivers -> {"idle", "parms", "oprf", "query", "working", "threw"}]
    BY <1>4 DEF Inv, Types
<1>6. CASE rpc[r] # "query"
    <2>1. UNCHANGED <<package_count, wpc>>
        BY <1>5, <1>6 DEF AwaitResponse
    <2>2. Types'
        BY <1>1, <1>4, <1>5, <2>1 DEF Inv, Types
    <2>3. Answered(r) /\ rpc'[r] = "idle"
        BY <1>2, <1>5, <1>6
    <2>4. outbox'[r] = <<>> /\ inbox'[r] = <<>> /\ ~Handled(r)' /\ Unsent(r)' = 0 /\ r \notin logged'
        BY <1>1, <1>4, <2>3 DEF Answered, Handled, Unsent
    <2>5. CallInv(r)'
        BY <2>3, <2>4 DEF CallInv, Settled
    <2>6. \A x \in Receivers : x # r => Same(x)
        BY <1>1, <1>4, <1>5, <2>1 DEF Same
    <2> QED
        BY <1>4, <2>2, <2>5, <2>6, OtherCalls DEF Inv
<1>7. CASE rpc[r] = "query"
    <2>1. /\ package_count' = [package_count EXCEPT ![r] = msg.count]
          /\ wpc' = [wpc EXCEPT ![r] = [w \in Tasks |-> IF w <= msg.count THEN "queued" ELSE "none"]]
        BY <1>1, <1>5, <1>7 DEF AwaitResponse
    <2>2. /\ package_count' \in [Receivers -> Nat] /\ package_count'[r] = msg.count
          /\ wpc'[r] = [w \in Tasks |-> IF w <= msg.count THEN "queued" ELSE "none"]
          /\ \A x \in Receivers : x # r => package_count'[x] = package_count[x] /\ wpc'[x] = wpc[x]
          /\ wpc' \in [Receivers -> [Tasks -> {"none", "queued", "claim", "receive", "merge", "write",
                                               "exit", "threw"}]]
        BY <1>1, <2>1 DEF Inv, Types
    <2>3. Types'
        BY <1>1, <1>4, <1>5, <2>2 DEF Inv, Types
    <2>4. {w \in Tasks : wpc'[r][w] = "receive"} = {}
        BY <2>2
    <2>5. Receiving(r)' = 0
        BY <2>4, FS_EmptySet DEF Receiving
    <2>6. Announced(r) /\ ~Handled(r)' /\ Unsent(r)' = Unsent(r) /\ AllResults(outbox'[r], 1)
        BY <1>1, <1>2, <1>4, <1>7 DEF Announced, Handled, Unsent, Answered
    <2>7. Balanced(r, package_count[r] + Receiving(r), Len(outbox[r]))'
        <3>1. Balanced(r, msg.count, Len(outbox[r]) - 1)
            BY <2>6 DEF Announced
        <3>2. package_count'[r] + Receiving(r)' = msg.count
            BY <1>1, <2>2, <2>5
        <3> QED
            BY <1>1, <1>4, <2>6, <3>1, <3>2 DEF Balanced
    <2>8. package_count'[r] > 0 => wpc'[r][1] \notin {"none", "exit"}
        BY <1>1, <2>2, QueryProtocolAssumption DEF Tasks
    <2>9. CallInv(r)'
        <3>1. rpc'[r] = "working" /\ inbox'[r] = <<>>
            BY <1>4, <1>5, <1>7, <2>6 DEF Announced
        <3>2. Working(r)'
            BY <2>6, <2>7, <2>8, <3>1 DEF Working
        <3> QED
            BY <3>1, <3>2 DEF CallInv
    <2>10. \A x \in Receivers : x # r => Same(x)
        BY <1>1, <1>4, <1>5, <2>2 DEF Same
    <2> QED
        BY <1>4, <2>3, <2>9, <2>10, OtherCalls DEF Inv
<1> QED
    BY <1>6, <1>7

Places == {"none", "queued", "claim", "receive", "merge", "write", "exit", "threw"}

LEMMA WorkerMoves ==
    ASSUME Types, NEW r \in Receivers, NEW w \in Tasks, NEW l \in Places, Goto(r, w, l)
    PROVE  /\ wpc' \in [Receivers -> [Tasks -> Places]] /\ wpc'[r] = [wpc[r] EXCEPT ![w] = l]
           /\ \A x \in Receivers : x # r => wpc'[x] = wpc[x]
           /\ wpc[r] \in [Tasks -> Places]
           /\ Receiving(r) \in Nat
           /\ l = "receive" /\ wpc[r][w] # "receive" => Receiving(r)' = Receiving(r) + 1
           /\ l # "receive" /\ wpc[r][w] = "receive" => Receiving(r)' = Receiving(r) - 1
           /\ l # "receive" /\ wpc[r][w] # "receive" => Receiving(r)' = Receiving(r)
<1> DEFINE before == {v \in Tasks : wpc[r][v] = "receive"}
           after == {v \in Tasks : wpc'[r][v] = "receive"}
<1>1. wpc \in [Receivers -> [Tasks -> Places]]
    BY DEF Types, Places
<1>2. /\ wpc' \in [Receivers -> [Tasks -> Places]] /\ wpc'[r] = [wpc[r] EXCEPT ![w] = l]
      /\ \A x \in Receivers : x # r => wpc'[x] = wpc[x]
      /\ wpc[r] \in [Tasks -> Places]
    BY <1>1 DEF Goto
<1>3. IsFiniteSet(before) /\ Cardinality(before) \in Nat
    BY ReceivingType
<1>4. after = IF l = "receive" THEN before \cup {w} ELSE before \ {w}
    BY <1>2
<1>5. w \in before <=> wpc[r][w] = "receive"
    OBVIOUS
<1>6. Receiving(r) = Cardinality(before) /\ Receiving(r)' = Cardinality(after)
    BY DEF Receiving
<1> HIDE DEF before, after
<1>7. CASE l = "receive"
    BY <1>2, <1>3, <1>4, <1>5, <1>6, <1>7, FS_AddElement
<1>8. CASE l # "receive" /\ wpc[r][w] = "receive"
    BY <1>2, <1>3, <1>4, <1>5, <1>6, <1>8, FS_RemoveElement
<1>9. CASE l # "receive" /\ wpc[r][w] # "receive"
    <2>1. after = before
        BY <1>4, <1>5, <1>9
    <2> QED
        BY <1>2, <1>3, <1>6, <1>9, <2>1
<1> QED
    BY <1>7, <1>8, <1>9

\* A worker that neither begins nor ends to wait for a package.
LEMMA WorkerKeeps ==
    ASSUME Inv, NEW r \in Receivers, NEW w \in Tasks,
           NEW l \in Places \ {"none", "receive", "exit"}, Goto(r, w, l),
           rpc[r] = "working", wpc[r][w] # "receive",
           UNCHANGED <<db, inbox, outbox, senderVars, rpc, package_count>>
    PROVE  Inv'
<1> USE DEF senderVars
<1>1. /\ wpc' \in [Receivers -> [Tasks -> Places]] /\ wpc'[r] = [wpc[r] EXCEPT ![w] = l]
      /\ \A x \in Receivers : x # r => wpc'[x] = wpc[x]
      /\ wpc[r] \in [Tasks -> Places]
      /\ Receiving(r)' = Receiving(r)
    BY WorkerMoves DEF Inv
<1>2. Types'
    BY <1>1 DEF Inv, Types, Places
<1>3. Working(r)
    BY DEF Inv, CallInv
<1>4. Balanced(r, package_count[r] + Receiving(r), Len(outbox[r]))'
    BY <1>1, <1>3 DEF Working, Balanced, Unsent
<1>5. package_count'[r] > 0 => wpc'[r][1] \notin {"none", "exit"}
    BY <1>1, <1>3, QueryProtocolAssumption DEF Working, Tasks
<1>6. CallInv(r)'
    BY <1>3, <1>4, <1>5 DEF CallInv, Working, AllResults, Handled
<1>7. \A x \in Receivers : x # r => Same(x)
    BY <1>1 DEF Same
<1>8. \A x \in Receivers : CallInv(x)'
    BY <1>6, <1>7, OtherCalls DEF Inv
<1> QED
    BY <1>2, <1>8 DEF Inv

LEMMA ClaimInv ==
    ASSUME Inv, NEW r \in Receivers, NEW w \in Tasks, Claim(r, w) PROVE Inv'
<1> USE DEF Claim, At, senderVars
<1>1. /\ Working(r) /\ package_count \in [Receivers -> Nat]
      /\ package_count[r] \in Nat
    BY DEF Inv, CallInv, Types
<1>2. CASE package_count[r] = 0
    <2>1. /\ wpc' \in [Receivers -> [Tasks -> Places]]
          /\ \A x \in Receivers : x # r => wpc'[x] = wpc[x]
          /\ Receiving(r)' = Receiving(r)
        <3>1. Goto(r, w, "exit") /\ wpc[r][w] = "claim" /\ "exit" \in Places
            BY <1>2 DEF Places
        <3>2. "exit" # "receive" /\ wpc[r][w] # "receive"
            BY <3>1
        <3>3. Types
            BY DEF Inv
        <3> QED
            BY <3>1, <3>2, <3>3, WorkerMoves, Zenon
    <2>2. package_count' = package_count
        BY <1>2
    <2>3. Types'
        BY <2>1, <2>2 DEF Inv, Types, Places
    <2>4. Balanced(r, package_count[r] + Receiving(r), Len(outbox[r]))'
        BY <1>1, <2>1, <2>2 DEF Working, Balanced, Unsent
    <2>5. CallInv(r)'
        BY <1>1, <1>2, <2>2, <2>4 DEF CallInv, Working, AllResults, Handled
    <2>6. \A x \in Receivers : x # r => Same(x)
        BY <2>1, <2>2 DEF Same
    <2> QED
        BY <2>3, <2>5, <2>6, OtherCalls DEF Inv
<1>3. CASE package_count[r] # 0
    <2>1. /\ wpc' \in [Receivers -> [Tasks -> Places]] /\ wpc'[r] = [wpc[r] EXCEPT ![w] = "receive"]
          /\ \A x \in Receivers : x # r => wpc'[x] = wpc[x]
          /\ wpc[r] \in [Tasks -> Places]
          /\ Receiving(r)' = Receiving(r) + 1 /\ Receiving(r) \in Nat
        <3>1. Goto(r, w, "receive") /\ wpc[r][w] = "claim" /\ "receive" \in Places
            BY <1>3 DEF Places
        <3> QED
            BY <3>1, WorkerMoves DEF Inv
    <2>2. /\ package_count' \in [Receivers -> Nat] /\ package_count'[r] = package_count[r] - 1
          /\ \A x \in Receivers : x # r => package_count'[x] = package_count[x]
        BY <1>1, <1>3
    <2>3. Types'
        BY <2>1, <2>2 DEF Inv, Types, Places
    <2>4. Balanced(r, package_count[r] + Receiving(r), Len(outbox[r]))'
        <3>1. (package_count[r] + Receiving(r))' = package_count[r] + Receiving(r)
            BY <1>1, <2>1, <2>2
        <3> QED
            BY <1>1, <3>1 DEF Working, Balanced, Unsent
    <2>5. wpc'[r][1] \notin {"none", "exit"}
        BY <1>1, <1>3, <2>1, QueryProtocolAssumption DEF Working, Tasks
    <2>6. CallInv(r)'
        BY <1>1, <2>4, <2>5 DEF CallInv, Working, AllResults, Handled
    <2>7. \A x \in Receivers : x # r => Same(x)
        BY <2>1, <2>2 DEF Same
    <2> QED
        BY <2>3, <2>6, <2>7, OtherCalls DEF Inv
<1> QED
    BY <1>2, <1>3

LEMMA ReceiveResultInv ==
    ASSUME Inv, NEW r \in Receivers, NEW w \in Tasks, ReceiveResult(r, w) PROVE Inv'
<1> USE DEF senderVars
<1>0. /\ rpc[r] = "working" /\ wpc[r][w] = "receive" /\ outbox[r] # <<>> /\ Receive(r)
      /\ UNCHANGED <<db, inbox, senderVars, rpc, package_count>>
    BY DEF ReceiveResult, At
<1>1. /\ outbox' \in [Receivers -> Seq(BackMsg)]
      /\ \A x \in Receivers : x # r => outbox'[x] = outbox[x]
      /\ Head(outbox[r]) = outbox[r][1] /\ 1 \in DOMAIN outbox[r]
      /\ Len(outbox'[r]) = Len(outbox[r]) - 1 /\ Len(outbox[r]) \in Nat \ {0}
      /\ \A from \in Nat : AllResults(outbox[r], from + 1) => AllResults(outbox'[r], from)
    BY <1>0, Receives DEF Inv
<1>2. Working(r) /\ package_count[r] \in Nat
    BY <1>0 DEF Inv, CallInv, Types
<1>3. Head(outbox[r]).type = "result"
    BY <1>1, <1>2 DEF Working, AllResults
<1>4. Goto(r, w, "merge")
    BY <1>3 DEF ReceiveResult
<1>5. /\ wpc' \in [Receivers -> [Tasks -> Places]] /\ wpc'[r] = [wpc[r] EXCEPT ![w] = "merge"]
      /\ \A x \in Receivers : x # r => wpc'[x] = wpc[x]
      /\ wpc[r] \in [Tasks -> Places]
      /\ Receiving(r)' = Receiving(r) - 1 /\ Receiving(r) \in Nat
    <2>1. "merge" \in Places
        BY DEF Places
    <2> QED
        BY <1>0, <1>4, <2>1, WorkerMoves DEF Inv
<1>6. Types'
    BY <1>0, <1>1, <1>5 DEF Inv, Types, Places
<1>7. Balanced(r, package_count[r] + Receiving(r), Len(outbox[r]))'
    <2>1. /\ Unsent(r)' = Unsent(r) /\ package_count'[r] = package_count[r] /\ logged' = logged
        BY <1>0 DEF Unsent
    <2>2. Unsent(r) \in Nat
        BY UnsentType DEF Inv
    <2>3. Balanced(r, package_count[r] + Receiving(r), Len(outbox[r]))
        BY <1>2 DEF Working
    <2>4. package_count'[r] + Receiving(r)' = (package_count[r] + Receiving(r)) - 1
        BY <1>2, <1>5, <2>1
    <2>5. package_count[r] + Receiving(r) \in Int
        BY <1>2, <1>5
    <2>6. Len(outbox'[r]) = Len(outbox[r]) - 1 /\ Len(outbox[r]) \in Int
        BY <1>1
    <2>7. CASE r \in logged
        BY <2>1, <2>2, <2>3, <2>4, <2>5, <2>6, <2>7 DEF Balanced
    <2>8. CASE r \notin logged
        BY <2>1, <2>2, <2>3, <2>4, <2>5, <2>6, <2>8 DEF Balanced
    <2> QED
        BY <2>7, <2>8
<1>8. package_count'[r] > 0 => wpc'[r][1] \notin {"none", "exit"}
    BY <1>0, <1>2, <1>5, QueryProtocolAssumption DEF Working, Tasks
<1>9. AllResults(outbox'[r], 1)
    <2>1. AllResults(outbox[r], 1 + 1)
        BY <1>2 DEF Working, AllResults, Inv, Types
    <2> QED
        BY <1>1, <2>1
<1>10. CallInv(r)'
    BY <1>0, <1>2, <1>7, <1>8, <1>9 DEF CallInv, Working, Handled
<1>11. \A x \in Receivers : x # r => Same(x)
    BY <1>0, <1>1, <1>5 DEF Same
<1>12. \A x \in Receivers : CallInv(x)'
    BY <1>0, <1>10, <1>11, OtherCalls DEF Inv
<1> QED
    BY <1>6, <1>12 DEF Inv

\* When all workers are through, nothing is left behind; a call that throws
\* leaves the rest to no one.
LEMMA JoinWorkersInv ==
    ASSUME Inv, NEW r \in Receivers, JoinWorkers(r) PROVE Inv'
<1> USE DEF senderVars
<1>1. /\ rpc[r] = "working" /\ UNCHANGED <<db, inbox, outbox, senderVars, package_count>>
      /\ wpc' = [wpc EXCEPT ![r] = [w \in Tasks |-> "none"]]
    BY DEF JoinWorkers
<1>2. /\ wpc' \in [Receivers -> [Tasks -> Places]]
      /\ \A x \in Receivers : x # r => wpc'[x] = wpc[x]
    BY <1>1 DEF Inv, Types, Places
<1>3. Working(r) /\ package_count[r] \in Nat /\ outbox[r] \in Seq(BackMsg)
    BY <1>1 DEF Inv, CallInv, Types
<1>4. CASE \A w \in Tasks : wpc[r][w] \in {"none", "exit"}
    <2>1. rpc' = [rpc EXCEPT ![r] = "idle"]
        BY <1>4 DEF JoinWorkers
    <2>2. package_count[r] = 0
        BY <1>3, <1>4, QueryProtocolAssumption DEF Working, Tasks
    <2>3. {w \in Tasks : wpc[r][w] = "receive"} = {}
        BY <1>4
    <2>4. Receiving(r) = 0
        BY <2>3, FS_EmptySet DEF Receiving
    <2>5. Unsent(r) \in Nat /\ Len(outbox[r]) \in Nat
        BY <1>3, UnsentType DEF Inv
    <2>6. Unsent(r) = 0 /\ Len(outbox[r]) = 0 /\ r \notin logged
        BY <1>3, <2>2, <2>4, <2>5 DEF Working, Balanced
    <2>7. outbox[r] = <<>>
        BY <1>3, <2>6
    <2>8. Settled(r)
        BY <1>3, <2>6, <2>7 DEF Working, Settled
    <2>9. /\ rpc'[r] = "idle" /\ \A x \in Receivers : x # r => rpc'[x] = rpc[x]
          /\ rpc' \in [Receivers -> {"idle", "parms", "oprf", "query", "working", "threw"}]
        BY <2>1 DEF Inv, Types
    <2>10. Types'
        BY <1>1, <1>2, <2>9 DEF Inv, Types, Places
    <2>11. CallInv(r)'
        BY <1>1, <2>6, <2>8, <2>9 DEF CallInv, Settled, Handled, Unsent
    <2>12. \A x \in Receivers : x # r => Same(x)
        BY <1>1, <1>2, <2>9 DEF Same
    <2> QED
        BY <1>1, <2>10, <2>11, <2>12, OtherCalls DEF Inv
<1>5. CASE ~ \A w \in Tasks : wpc[r][w] \in {"none", "exit"}
    <2>1. rpc' = [rpc EXCEPT ![r] = "threw"]
        BY <1>5 DEF JoinWorkers
    <2>2. /\ rpc'[r] = "threw" /\ \A x \in Receivers : x # r => rpc'[x] = rpc[x]
          /\ rpc' \in [Receivers -> {"idle", "parms", "oprf", "query", "working", "threw"}]
        BY <2>1 DEF Inv, Types
    <2>3. Types'
        BY <1>1, <1>2, <2>2 DEF Inv, Types, Places
    <2>4. CallInv(r)'
        BY <2>2 DEF CallInv
    <2>5. \A x \in Receivers : x # r => Same(x)
        BY <1>1, <1>2, <2>2 DEF Same
    <2> QED
        BY <1>1, <2>3, <2>4, <2>5, OtherCalls DEF Inv
<1> QED
    BY <1>4, <1>5

LEMMA WorkerInv ==
    ASSUME Inv, NEW r \in Receivers, NEW w \in Tasks, RunWorker(r, w) PROVE Inv'
<1> USE DEF At
<1>1. CASE StartWorker(r, w)
    <2>1. "claim" \in Places \ {"none", "receive", "exit"}
        BY DEF Places
    <2> QED
        BY <1>1, <2>1, WorkerKeeps DEF StartWorker
<1>2. CASE Claim(r, w)
    BY <1>2, ClaimInv
<1>3. CASE ReceiveResult(r, w)
    BY <1>3, ReceiveResultInv
<1>4. CASE CheckDuplicates(r, w)
    <2>1. {"threw", "write"} \subseteq Places \ {"none", "receive", "exit"}
        BY DEF Places
    <2>2. PICK l \in {"threw", "write"} : Goto(r, w, l)
        BY <1>4 DEF CheckDuplicates
    <2> QED
        BY <1>4, <2>1, <2>2, WorkerKeeps DEF CheckDuplicates
<1>5. CASE Merge(r, w)
    <2>1. "claim" \in Places \ {"none", "receive", "exit"}
        BY DEF Places
    <2> QED
        BY <1>5, <2>1, WorkerKeeps DEF Merge
<1> QED
    BY <1>1, <1>2, <1>3, <1>4, <1>5 DEF RunWorker

LEMMA StutterInv == ASSUME Inv, UNCHANGED vars PROVE Inv'
<1> USE DEF vars, senderVars, recvVars, resultVars
<1>1. Types'
    BY DEF Inv, Types
<1>2. ASSUME NEW r \in Receivers PROVE CallInv(r)'
    BY CallStays DEF Inv, Same, Handled, Unsent
<1> QED
    BY <1>1, <1>2 DEF Inv

LEMMA InvNext == Inv /\ [Next]_vars => Inv'
<1> SUFFICES ASSUME Inv, [Next]_vars PROVE Inv'
    OBVIOUS
<1>1. CASE UpdateDB \/ Stop
    BY <1>1, UpdateDBInv, StopInv
<1>2. CASE Dispatch
    BY <1>2, ReceiveOperationInv, RunRequestInv, StartQueryInv, AnnounceInv, ComputePowersInv,
       JoinTasksInv DEF Dispatch
<1>3. ASSUME NEW b \in DOMAIN tasks, RunTask(b) PROVE Inv'
    BY <1>3, ProcessBinBundleCacheInv, ProcessThrowsInv DEF RunTask
<1>4. ASSUME NEW r \in Receivers, NEW valid \in BOOLEAN, RequestParams(r) \/ RequestOPRF(r, valid)
      PROVE  Inv'
    BY <1>4, RequestInv DEF RequestParams, RequestOPRF
<1>5. ASSUME NEW r \in Receivers, NEW q \in Queries, NEW valid \in BOOLEAN,
             RequestQuery(r, q, valid)
      PROVE  Inv'
    BY <1>5, RequestQueryInv
<1>6. ASSUME NEW r \in Receivers, AwaitResponse(r) \/ JoinWorkers(r) PROVE Inv'
    BY <1>6, AwaitResponseInv, JoinWorkersInv
<1>7. ASSUME NEW r \in Receivers, NEW w \in Tasks, RunWorker(r, w) PROVE Inv'
    BY <1>7, WorkerInv
<1>8. CASE Quiet \/ UNCHANGED vars
    BY <1>8, StutterInv DEF Quiet
<1> QED
    BY <1>1, <1>2, <1>3, <1>4, <1>5, <1>6, <1>7, <1>8 DEF Next

LEMMA InvHolds == Spec => []Inv
BY InvInit, InvNext, PTL DEF Spec
-----------------------------------------------------------------------------
(***************************************************************************)
(* A receiver finds in its channel only what it waits for: no response and *)
(* no package of one call is left over for the next one.                   *)
(***************************************************************************)
THEOREM OnlyAwaitedArrives == Spec => []OnlyAwaited
<1>1. ASSUME Inv PROVE OnlyAwaited
    <2> SUFFICES ASSUME NEW r \in Receivers, NEW k \in DOMAIN outbox[r],
                        rpc[r] # "threw"
                 PROVE  \/ rpc[r] \in {"parms", "oprf"} /\ outbox[r][k].type = rpc[r]
                        \/ rpc[r] = "query" /\ outbox[r][k].type = IF k = 1 THEN "query" ELSE "result"
                        \/ rpc[r] = "working" /\ outbox[r][k].type = "result"
        BY DEF OnlyAwaited
    <2>1. outbox[r] \in Seq(BackMsg) /\ k \in Nat \ {0} /\ outbox[r] # <<>> /\ k <= Len(outbox[r])
        BY <1>1 DEF Inv, Types
    <2>2. CallInv(r)
        BY <1>1 DEF Inv
    <2>3. CASE rpc[r] = "idle"
        BY <2>1, <2>2, <2>3 DEF CallInv, Settled
    <2>4. CASE rpc[r] \in {"parms", "oprf"}
        <3>1. Answered(r)
            BY <2>1, <2>2, <2>4 DEF CallInv, Requested, InHand, Settled
        <3>2. k = 1
            BY <2>1, <3>1 DEF Answered
        <3> QED
            BY <2>4, <3>1, <3>2 DEF Answered
    <2>5. CASE rpc[r] = "query"
        <3>1. Announced(r)
            BY <2>1, <2>2, <2>5 DEF CallInv, Requested, InHand, Settled
        <3> QED
            BY <2>1, <2>5, <3>1 DEF Announced, AllResults
    <2>6. CASE rpc[r] = "working"
        BY <2>1, <2>2, <2>6 DEF CallInv, Working, AllResults
    <2> QED
        BY <1>1, <2>3, <2>4, <2>5, <2>6 DEF Inv, Types
<1> QED
    BY <1>1, InvHolds, PTL

(***************************************************************************)
(* As long as the sender has not given up a query, exactly as many packages*)
(* come as the workers of the receiver claim: none waits for one that does *)
(* not come, and none is left in the channel.                              *)
(***************************************************************************)
THEOREM PackagesAreBalanced == Spec => []PackagesBalance
<1>1. ASSUME Inv PROVE PackagesBalance
    <2> SUFFICES ASSUME NEW r \in Receivers, rpc[r] = "working", r \notin logged
                 PROVE  package_count[r] + Cardinality({w \in Tasks : wpc[r][w] = "receive"})
                          = Cardinality(Results(r)) + Unsent(r)
        BY DEF PackagesBalance
    <2>1. Working(r) /\ outbox[r] \in Seq(BackMsg)
        BY <1>1 DEF Inv, CallInv, Types
    <2>2. Results(r) = 1 .. Len(outbox[r]) /\ Len(outbox[r]) \in Nat
        BY <2>1 DEF Results, Working, AllResults
    <2>3. Cardinality(Results(r)) = Len(outbox[r])
        BY <2>2, FS_Interval
    <2> QED
        BY <2>1, <2>3 DEF Working, Balanced, Receiving
<1> QED
    BY <1>1, InvHolds, PTL
-----------------------------------------------------------------------------
(***************************************************************************)
(* What the receivers remember besides: their records, the packages their  *)
(* workers hold, and how many calls were made.                             *)
(***************************************************************************)
Consistent(r) ==
    /\ rpc[r] = "working" => Len(mrs[r]) = Len(query[r])
    /\ \A w \in Tasks : part[r][w] # {} => wpc[r][w] \in {"merge", "write", "threw"}
    /\ \A w \in Tasks : rpc[r] # "working" => wpc[r][w] = "none"

Records ==
    /\ query \in [Receivers -> Seq(Items)] /\ mrs \in [Receivers -> Seq(BOOLEAN)]
    /\ part \in [Receivers -> [Tasks -> SUBSET Items]] /\ calls \in 0 .. MaxCalls
    /\ \A r \in Receivers : Consistent(r)

LEMMA RecordsInit == Init => Records
BY QueryProtocolAssumption DEF Init, Records, Consistent

LEMMA RecordsStay == ASSUME Records, UNCHANGED recvVars PROVE Records'
BY DEF Records, Consistent, recvVars, resultVars

LEMMA ConsistentStays ==
    ASSUME NEW r \in Receivers, Consistent(r), Len(mrs'[r]) = Len(mrs[r]), query'[r] = query[r],
           part'[r] = part[r], wpc'[r] = wpc[r], rpc'[r] = rpc[r]
    PROVE  Consistent(r)'
BY DEF Consistent

LEMMA RecordsCalls ==
    ASSUME Inv, Records, NEW r \in Receivers, CallEnabled(r), calls' = calls + 1,
           NEW type \in {"parms", "oprf", "query"}, rpc' = [rpc EXCEPT ![r] = type],
           \/ query' = query
           \/ \E q \in Queries : query' = [query EXCEPT ![r] = q],
           UNCHANGED resultVars
    PROVE  Records'
<1> USE DEF resultVars
<1>1. calls' \in 0 .. MaxCalls
    BY QueryProtocolAssumption DEF Records, CallEnabled
<1>2. /\ query' \in [Receivers -> Seq(Items)]
      /\ \A x \in Receivers : x # r => query'[x] = query[x]
    BY QueryProtocolAssumption DEF Records
<1>3. rpc'[r] # "working" /\ \A x \in Receivers : x # r => rpc'[x] = rpc[x]
    BY DEF Inv, Types
<1>4. Consistent(r)'
    BY <1>3 DEF Records, Consistent, CallEnabled
<1>5. \A x \in Receivers : x # r => Consistent(x)'
    BY <1>2, <1>3, ConsistentStays DEF Records
<1> QED
    BY <1>1, <1>2, <1>4, <1>5 DEF Records

LEMMA NoMatchType ==
    ASSUME NEW q \in Seq(Items)
    PROVE  NoMatch(q) \in Seq(BOOLEAN) /\ Len(NoMatch(q)) = Len(q)
<1>1. DOMAIN q = 1 .. Len(q) /\ Len(q) \in Nat
    OBVIOUS
<1>2. NoMatch(q) \in [1 .. Len(q) -> BOOLEAN]
    BY <1>1 DEF NoMatch
<1> QED
    BY <1>1, <1>2

\* A worker changes its own package and no other.
LEMMA RecordsWorker ==
    ASSUME Inv, Records, NEW r \in Receivers, NEW w \in Tasks, NEW l \in Places, Goto(r, w, l),
           rpc[r] = "working", NEW held \in SUBSET Items, part' = [part EXCEPT ![r][w] = held],
           held # {} => l \in {"merge", "write", "threw"},
           mrs' \in [Receivers -> Seq(BOOLEAN)],
           \A x \in Receivers : Len(mrs'[x]) = Len(mrs[x]),
           UNCHANGED <<rpc, calls, query>>
    PROVE  Records'
<1>1. /\ part' \in [Receivers -> [Tasks -> SUBSET Items]] /\ part'[r] = [part[r] EXCEPT ![w] = held]
      /\ part[r] \in [Tasks -> SUBSET Items]
      /\ \A x \in Receivers : x # r => part'[x] = part[x]
    BY DEF Records
<1>2. /\ wpc'[r] = [wpc[r] EXCEPT ![w] = l] /\ wpc[r] \in [Tasks -> Places]
      /\ \A x \in Receivers : x # r => wpc'[x] = wpc[x]
    BY WorkerMoves DEF Inv
<1>3. Consistent(r)
    BY DEF Records
<1>4. \A v \in Tasks : part'[r][v] # {} => wpc'[r][v] \in {"merge", "write", "threw"}
    BY <1>1, <1>2, <1>3 DEF Consistent
<1>5. Consistent(r)'
    BY <1>3, <1>4 DEF Consistent
<1>6. \A x \in Receivers : x # r => Consistent(x)'
    BY <1>1, <1>2, ConsistentStays DEF Records
<1> QED
    BY <1>1, <1>5, <1>6 DEF Records

LEMMA RecordsRunWorker ==
    ASSUME Inv, Records, NEW r \in Receivers, NEW w \in Tasks, RunWorker(r, w) PROVE Records'
<1> USE DEF At
<1>1. mrs \in [Receivers -> Seq(BOOLEAN)] /\ part[r][w] \subseteq Items /\ Consistent(r)
    BY DEF Records
<1>2. part = [part EXCEPT ![r][w] = part[r][w]] /\ rpc[r] = "working"
    BY DEF Records, RunWorker, StartWorker, Claim, ReceiveResult, CheckDuplicates, Merge
<1>3. CASE StartWorker(r, w) \/ Claim(r, w)
    <2>1. PICK l \in {"claim", "exit", "receive"} : Goto(r, w, l)
        BY <1>3 DEF StartWorker, Claim
    <2>2. /\ wpc[r][w] \notin {"merge", "write", "threw"}
          /\ UNCHANGED <<rpc, calls, query, mrs, part>>
        BY <1>3 DEF StartWorker, Claim
    <2>3. part[r][w] = {} /\ l \in Places
        BY <1>1, <2>2 DEF Consistent, Places
    <2> DEFINE held == part[r][w]
    <2>4. held \in SUBSET Items /\ ~(held # {}) /\ part' = [part EXCEPT ![r][w] = held]
        BY <1>1, <1>2, <2>2, <2>3
    <2>5. mrs' \in [Receivers -> Seq(BOOLEAN)] /\ \A x \in Receivers : Len(mrs'[x]) = Len(mrs[x])
        BY <1>1, <2>2
    <2> HIDE DEF held
    <2>6. held # {} => l \in {"merge", "write", "threw"}
        BY <2>4
    <2>7. UNCHANGED <<rpc, calls, query>> /\ rpc[r] = "working"
        BY <1>2, <2>2
    <2> QED
        BY <2>1, <2>3, <2>4, <2>5, <2>6, <2>7, RecordsWorker, Zenon
<1>4. CASE ReceiveResult(r, w)
    <2> DEFINE msg == Head(outbox[r])
    <2>1. msg \in BackMsg
        BY <1>4 DEF ReceiveResult, Inv, Types
    <2>2. msg.items \subseteq Items
        BY <2>1 DEF BackMsg
    <2>3. UNCHANGED <<rpc, calls, query, mrs>>
        BY <1>4 DEF ReceiveResult
    <2>4. PICK l \in {"merge", "threw"}, held \in SUBSET Items :
              Goto(r, w, l) /\ part' = [part EXCEPT ![r][w] = held]
        <3>1. CASE msg.type = "result"
            BY <1>4, <2>2, <3>1 DEF ReceiveResult
        <3>2. CASE msg.type # "result"
            BY <1>1, <1>2, <1>4, <3>2 DEF ReceiveResult
        <3> QED
            BY <3>1, <3>2
    <2>5. l \in Places
        BY DEF Places
    <2> QED
        BY <1>1, <1>2, <2>3, <2>4, <2>5, RecordsWorker
<1>5. CASE CheckDuplicates(r, w)
    <2>1. PICK l \in {"threw", "write"} : Goto(r, w, l)
        BY <1>5 DEF CheckDuplicates
    <2>2. UNCHANGED <<rpc, calls, query, mrs, part>> /\ l \in Places
        BY <1>5 DEF CheckDuplicates, Places
    <2> QED
        BY <1>1, <1>2, <2>1, <2>2, RecordsWorker
<1>6. CASE Merge(r, w)
    <2> DEFINE new == [i \in DOMAIN mrs[r] |-> mrs[r][i] \/ i \in Found(r, w)]
    <2>1. mrs' = [mrs EXCEPT ![r] = new]
        BY <1>6 DEF Merge
    <2>2. mrs[r] \in Seq(BOOLEAN) /\ DOMAIN mrs[r] = 1 .. Len(mrs[r]) /\ Len(mrs[r]) \in Nat
        BY <1>1
    <2>3. new \in Seq(BOOLEAN) /\ Len(new) = Len(mrs[r])
        <3>1. \A i \in DOMAIN mrs[r] : new[i] \in BOOLEAN
            BY <2>2, Zenon
        <3>2. new \in [1 .. Len(mrs[r]) -> BOOLEAN]
            BY <2>2, <3>1
        <3> HIDE DEF new
        <3> QED
            BY <2>2, <3>2
    <2> HIDE DEF new
    <2>4. mrs' \in [Receivers -> Seq(BOOLEAN)] /\ \A x \in Receivers : Len(mrs'[x]) = Len(mrs[x])
        BY <1>1, <2>1, <2>3
    <2>5. /\ Goto(r, w, "claim") /\ part' = [part EXCEPT ![r][w] = {}]
          /\ UNCHANGED <<rpc, calls, query>>
        BY <1>6 DEF Merge
    <2>6. "claim" \in Places /\ {} \in SUBSET Items
        BY DEF Places
    <2> QED
        BY <1>2, <2>4, <2>5, <2>6, RecordsWorker
<1> QED
    BY <1>3, <1>4, <1>5, <1>6 DEF RunWorker

LEMMA RecordsAwait ==
    ASSUME Inv, Inv', Records, NEW r \in Receivers, AwaitResponse(r) PROVE Records'
<1>1. CASE rpc'[r] = "working"
    <2>1. /\ mrs' = [mrs EXCEPT ![r] = NoMatch(query[r])] /\ UNCHANGED <<calls, query, part>>
          /\ \A x \in Receivers : x # r => rpc'[x] = rpc[x] /\ wpc'[x] = wpc[x]
        BY <1>1 DEF AwaitResponse, Inv, Types
    <2>2. NoMatch(query[r]) \in Seq(BOOLEAN) /\ Len(NoMatch(query[r])) = Len(query[r])
        BY NoMatchType DEF Records
    <2>3. \A w \in Tasks : part[r][w] = {}
        <3>1. rpc[r] # "working" /\ Consistent(r)
            BY DEF AwaitResponse, Records
        <3> QED
            BY <3>1 DEF Consistent
    <2>4. mrs' \in [Receivers -> Seq(BOOLEAN)] /\ mrs'[r] = NoMatch(query[r])
          /\ \A x \in Receivers : x # r => mrs'[x] = mrs[x]
        BY <2>1, <2>2 DEF Records
    <2>5. Consistent(r)'
        BY <1>1, <2>1, <2>2, <2>3, <2>4 DEF Consistent
    <2>6. \A x \in Receivers : x # r => Consistent(x)'
        BY <2>1, <2>4, ConsistentStays DEF Records
    <2> QED
        BY <2>1, <2>4, <2>5, <2>6 DEF Records
<1>2. CASE rpc'[r] # "working"
    <2>1. UNCHANGED <<calls, query, mrs, part, wpc>>
        BY <1>2 DEF AwaitResponse, resultVars
    <2>2. \A x \in Receivers : x # r => rpc'[x] = rpc[x]
        BY DEF AwaitResponse, Inv, Types
    <2>3. Consistent(r)'
        BY <1>2, <2>1 DEF Consistent, AwaitResponse, Records
    <2>4. \A x \in Receivers : x # r => Consistent(x)'
        BY <2>1, <2>2, ConsistentStays DEF Records
    <2> QED
        BY <2>1, <2>3, <2>4 DEF Records
<1> QED
    BY <1>1, <1>2

LEMMA RecordsJoin ==
    ASSUME Inv, Records, NEW r \in Receivers, JoinWorkers(r) PROVE Records'
<1>1. /\ part' = [part EXCEPT ![r] = [w \in Tasks |-> {}]]
      /\ wpc' = [wpc EXCEPT ![r] = [w \in Tasks |-> "none"]]
      /\ UNCHANGED <<calls, query>>
    BY DEF JoinWorkers
<1>2. PICK to \in {"idle", "threw"} : rpc' = [rpc EXCEPT ![r] = to]
    BY DEF JoinWorkers
<1>3. rpc'[r] # "working" /\ \A x \in Receivers : x # r => rpc'[x] = rpc[x]
    BY <1>2 DEF Inv, Types
<1>4. mrs' = mrs \/ mrs' = [mrs EXCEPT ![r] = NoMatch(query[r])]
    BY DEF JoinWorkers
<1>5. NoMatch(query[r]) \in Seq(BOOLEAN)
    BY NoMatchType DEF Records
<1>6. mrs' \in [Receivers -> Seq(BOOLEAN)] /\ \A x \in Receivers : x # r => mrs'[x] = mrs[x]
    BY <1>4, <1>5 DEF Records
<1>7. \A x \in Receivers : x # r => part'[x] = part[x] /\ wpc'[x] = wpc[x]
    BY <1>1 DEF Records, Inv, Types
<1>8. \A w \in Tasks : part'[r][w] = {} /\ wpc'[r][w] = "none"
    BY <1>1 DEF Records, Inv, Types
<1>9. part' \in [Receivers -> [Tasks -> SUBSET Items]]
    BY <1>1 DEF Records
<1>10. Consistent(r)'
    BY <1>3, <1>8 DEF Consistent
<1>11. \A x \in Receivers : x # r => Consistent(x)'
    BY <1>1, <1>3, <1>6, <1>7, ConsistentStays DEF Records
<1> QED
    BY <1>1, <1>6, <1>9, <1>10, <1>11 DEF Records

LEMMA RecordsNext == Inv /\ Inv' /\ Records /\ [Next]_vars => Records'
<1> SUFFICES ASSUME Inv, Inv', Records, [Next]_vars PROVE Records'
    OBVIOUS
<1>1. CASE UpdateDB \/ Stop \/ Dispatch \/ Quiet \/ UNCHANGED vars
    BY <1>1, RecordsStay DEF UpdateDB, Stop, Dispatch, ReceiveOperation, RunRequest, StartQuery,
       Announce, ComputePowers, JoinTasks, Quiet, vars
<1>2. ASSUME NEW b \in DOMAIN tasks, RunTask(b) PROVE Records'
    BY <1>2, RecordsStay DEF RunTask, ProcessBinBundleCache, ProcessThrows
<1>3. ASSUME NEW r \in Receivers, NEW valid \in BOOLEAN, RequestParams(r) \/ RequestOPRF(r, valid)
      PROVE  Records'
    BY <1>3, RecordsCalls DEF RequestParams, RequestOPRF, Request
<1>4. ASSUME NEW r \in Receivers, NEW q \in Queries, NEW valid \in BOOLEAN,
             RequestQuery(r, q, valid)
      PROVE  Records'
    BY <1>4, RecordsCalls DEF RequestQuery
<1>5. ASSUME NEW r \in Receivers, AwaitResponse(r) \/ JoinWorkers(r) PROVE Records'
    BY <1>5, RecordsAwait, RecordsJoin
<1>6. ASSUME NEW r \in Receivers, NEW w \in Tasks, RunWorker(r, w) PROVE Records'
    BY <1>6, RecordsRunWorker
<1> QED
    BY <1>1, <1>2, <1>3, <1>4, <1>5, <1>6 DEF Next

(***************************************************************************)
(* The types of the variables of the conversation; no worker holds a       *)
(* package that it has not received or has already merged.                 *)
(***************************************************************************)
THEOREM TypeCorrect == Spec => []TypeOK
<1>1. Spec => [](Inv /\ Records)
    BY InvInit, InvNext, RecordsInit, RecordsNext, PTL DEF Spec
<1>2. ASSUME Inv, Records PROVE TypeOK
    <2>1. /\ db \in DBs /\ logged \subseteq Receivers /\ calls \in 0 .. MaxCalls
          /\ dpc \in {"poll", "dispatch", "announce", "powers", "join", "stopped"}
          /\ tasks # <<>> => dpc = "join"
        BY <1>2 DEF Inv, Types, Records
    <2>2. ASSUME NEW r \in Receivers
          PROVE  /\ rpc[r] \in {"idle", "parms", "oprf", "query", "working", "threw"}
                 /\ package_count[r] \in Nat /\ mrs[r] \in Seq(BOOLEAN)
                 /\ rpc[r] = "working" => Len(mrs[r]) = Len(query[r])
                 /\ \A w \in Tasks : part[r][w] # {} => wpc[r][w] \in {"merge", "write", "threw"}
        BY <1>2 DEF Inv, Types, Records, Consistent
    <2>3. ASSUME NEW r \in Receivers, NEW m \in ToSet(outbox[r])
          PROVE  m.items \subseteq Items /\ m.count \in Nat
        <3>1. m \in BackMsg
            BY <1>2 DEF Inv, Types, ToSet
        <3> QED
            BY <3>1 DEF BackMsg
    <2>4. ASSUME NEW r \in Receivers, NEW o \in ToSet(inbox[r]) PROVE o.client_id = r
        BY <1>2 DEF Inv, Types, ToSet
    <2> QED
        BY <2>1, <2>2, <2>3, <2>4 DEF TypeOK
<1> QED
    BY <1>1, <1>2, PTL
-----------------------------------------------------------------------------
(***************************************************************************)
(* QueryProtocol implements AbstractPSI: what a query returns are the      *)
(* items that were in the sender's set at one moment between the call and  *)
(* its return.  The invariant: operation, packages and parts of receiver r *)
(* are about its present query, and so is the operation the sender works   *)
(* on as long as it owes r something.                                      *)
(***************************************************************************)
Owed(r) == (Handled(r) /\ sop.type = "query") \/ Unsent(r) # 0

Carries(r) ==
    /\ \A k \in DOMAIN inbox[r] : inbox[r][k].type = "query" => inbox[r][k].items = ToSet(query[r])
    /\ \A k \in DOMAIN outbox[r] : /\ outbox[r][k].items \subseteq ToSet(query[r])
                                   /\ outbox[r][k].type # "result" => outbox[r][k].items = {}
    /\ Owed(r) => sop.items = ToSet(query[r])
    /\ \A w \in Tasks : part[r][w] \subseteq ToSet(query[r])

Carried == \A r \in Receivers : Carries(r)

LEMMA CarriedInit == Init => Carried
<1> SUFFICES ASSUME Init, NEW r \in Receivers PROVE Carries(r)
    BY DEF Carried
<1>1. ~Owed(r)
    BY DEF Init, Owed, Handled, Unsent
<1> QED
    BY <1>1 DEF Init, Carries

LEMMA CarriesStay ==
    ASSUME NEW r \in Receivers, Carries(r), inbox'[r] = inbox[r], outbox'[r] = outbox[r],
           query'[r] = query[r], part'[r] = part[r], Owed(r)' => Owed(r) /\ sop' = sop
    PROVE  Carries(r)'
BY DEF Carries
-----------------------------------------------------------------------------
(***************************************************************************)
(* What AbstractPSI sees of a receiver, and of a step.                     *)
(***************************************************************************)
SameView(r) ==
    /\ Status(r)' = Status(r) /\ Answer(r)' = Answer(r)
    /\ ToSet(query[r])' = ToSet(query[r])

Still(r) ==
    /\ rpc'[r] = rpc[r] /\ (r \in logged' <=> r \in logged) /\ (Asked(r)' <=> Asked(r))
    /\ query'[r] = query[r] /\ mrs'[r] = mrs[r] /\ part'[r] = part[r]
    /\ outbox'[r] = outbox[r] /\ ToCome(r)' = ToCome(r)

LEMMA StillView ==
    ASSUME NEW r \in Receivers, Still(r) PROVE SameView(r)
<1>1. Status(r)' = Status(r)
    BY DEF Still, Status, Querying
<1>2. InRecords(r)' = InRecords(r) /\ Held(r)' = Held(r)
    BY DEF Still, InRecords, Held
<1>3. OnTheWay(outbox[r])' = OnTheWay(outbox[r])
    BY DEF Still, OnTheWay
<1>4. Answer(r)' = Answer(r)
    BY <1>1, <1>2, <1>3 DEF Still, Answer
<1> QED
    BY <1>1, <1>4 DEF SameView, Still

LEMMA Stutters ==
    ASSUME AllItems' = AllItems, \A r \in Receivers : SameView(r)
    PROVE  UNCHANGED PSI!avars
BY DEF PSI!avars, SameView

LEMMA ChangesDB ==
    ASSUME AllItems' \subseteq Items, \A r \in Receivers : SameView(r)
    PROVE  PSI!ChangeDB
BY DEF PSI!ChangeDB, SameView

LEMMA Asks ==
    ASSUME NEW r \in Receivers, \A x \in Receivers : x # r => SameView(x), AllItems' = AllItems,
           Status(r) = "idle", Status(r)' = "asked", Answer(r)' = {},
           ToSet(query[r])' \subseteq Items
    PROVE  PSI!Ask(r)
<1>1. [x \in Receivers |-> Status(x)]' = [[x \in Receivers |-> Status(x)] EXCEPT ![r] = "asked"]
    BY DEF SameView
<1>2. [x \in Receivers |-> Answer(x)]' = [[x \in Receivers |-> Answer(x)] EXCEPT ![r] = {}]
    BY DEF SameView
<1>3. \E s \in SUBSET Items :
        [x \in Receivers |-> ToSet(query[x])]'
          = [[x \in Receivers |-> ToSet(query[x])] EXCEPT ![r] = s]
    <2> WITNESS ToSet(query[r])' \in SUBSET Items
    <2> QED
        BY DEF SameView
<1> QED
    BY <1>1, <1>2, <1>3 DEF PSI!Ask

LEMMA Evaluates ==
    ASSUME NEW r \in Receivers, \A x \in Receivers : x # r => SameView(x), AllItems' = AllItems,
           Status(r) = "asked", Status(r)' = "answered",
           Answer(r)' = ToSet(query[r]) \cap AllItems, ToSet(query[r])' = ToSet(query[r])
    PROVE  PSI!Evaluate(r)
<1>1. [x \in Receivers |-> Status(x)]' = [[x \in Receivers |-> Status(x)] EXCEPT ![r] = "answered"]
    BY DEF SameView
<1>2. [x \in Receivers |-> Answer(x)]'
        = [[x \in Receivers |-> Answer(x)] EXCEPT ![r] = ToSet(query[r]) \cap AllItems]
    BY DEF SameView
<1>3. [x \in Receivers |-> ToSet(query[x])]' = [x \in Receivers |-> ToSet(query[x])]
    BY DEF SameView
<1> QED
    BY <1>1, <1>2, <1>3 DEF PSI!Evaluate

LEMMA Returns ==
    ASSUME NEW r \in Receivers, \A x \in Receivers : x # r => SameView(x), AllItems' = AllItems,
           Status(r) = "answered", Status(r)' = "idle",
           Answer(r)' = Answer(r), ToSet(query[r])' = ToSet(query[r])
    PROVE  PSI!Return(r)
<1>1. [x \in Receivers |-> Status(x)]' = [[x \in Receivers |-> Status(x)] EXCEPT ![r] = "idle"]
    BY DEF SameView
<1>2. [x \in Receivers |-> Answer(x)]' = [x \in Receivers |-> Answer(x)]
    BY DEF SameView
<1>3. [x \in Receivers |-> ToSet(query[x])]' = [x \in Receivers |-> ToSet(query[x])]
    BY DEF SameView
<1> QED
    BY <1>1, <1>2, <1>3 DEF PSI!Return

LEMMA Fails ==
    ASSUME NEW r \in Receivers, \A x \in Receivers : x # r => SameView(x), AllItems' = AllItems,
           Status(r) \in {"asked", "answered"}, Status(r)' = "failed",
           Answer(r)' = {}, ToSet(query[r])' = ToSet(query[r])
    PROVE  PSI!Fail(r)
<1>1. [x \in Receivers |-> Status(x)]' = [[x \in Receivers |-> Status(x)] EXCEPT ![r] = "failed"]
    BY DEF SameView
<1>2. [x \in Receivers |-> Answer(x)]' = [[x \in Receivers |-> Answer(x)] EXCEPT ![r] = {}]
    BY DEF SameView
<1>3. [x \in Receivers |-> ToSet(query[x])]' = [x \in Receivers |-> ToSet(query[x])]
    BY DEF SameView
<1> QED
    BY <1>1, <1>2, <1>3 DEF PSI!Fail

AbstractStep == PSI!ANext \/ UNCHANGED PSI!avars

\* A call that the sender or the receiver gives up, or has given up before.
LEMMA GivesUpView ==
    ASSUME NEW r \in Receivers, \A x \in Receivers : x # r => SameView(x), AllItems' = AllItems,
           rpc[r] \in {"query", "working", "threw"}, rpc'[r] \in {rpc[r], "threw"},
           rpc'[r] = "threw" \/ r \in logged', query'[r] = query[r]
    PROVE  AbstractStep
<1>1. Status(r) \in {"asked", "answered", "failed"}
    BY DEF Status, Querying
<1>2. Status(r)' = "failed"
    <2>1. CASE rpc'[r] = "threw"
        BY <2>1 DEF Status, Querying
    <2>2. CASE rpc'[r] # "threw"
        <3>1. rpc'[r] \in {"query", "working"} /\ r \in logged'
            BY <2>2
        <3> QED
            BY <2>2, <3>1 DEF Status, Querying
    <2> QED
        BY <2>1, <2>2
<1>3. Answer(r)' = {}
    BY <1>2 DEF Answer
<1>4. CASE Status(r) = "failed"
    <2>1. SameView(r)
        BY <1>2, <1>3, <1>4 DEF SameView, Answer
    <2> QED
        BY <2>1, Stutters DEF AbstractStep
<1>5. CASE Status(r) # "failed"
    BY <1>1, <1>2, <1>3, <1>5, Fails DEF AbstractStep, PSI!ANext
<1> QED
    BY <1>4, <1>5
-----------------------------------------------------------------------------
(***************************************************************************)
(* Lemmas about what is on the way.                                        *)
(***************************************************************************)
LEMMA OnTheWayAppend ==
    ASSUME NEW s \in Seq(BackMsg), NEW msg \in BackMsg
    PROVE  OnTheWay(Append(s, msg)) = OnTheWay(s) \cup msg.items
<1>1. ToSet(Append(s, msg)) = ToSet(s) \cup {msg}
    <2>1. /\ DOMAIN Append(s, msg) = DOMAIN s \cup {Len(s) + 1}
          /\ Append(s, msg)[Len(s) + 1] = msg
          /\ \A k \in DOMAIN s : Append(s, msg)[k] = s[k]
        OBVIOUS
    <2> QED
        BY <2>1, Zenon DEF ToSet
<1> QED
    BY <1>1 DEF OnTheWay

LEMMA OnTheWayTail ==
    ASSUME NEW s \in Seq(BackMsg), s # <<>>
    PROVE  OnTheWay(s) = s[1].items \cup OnTheWay(Tail(s))
<1>1. ToSet(s) = {s[1]} \cup ToSet(Tail(s))
    <2>1. /\ \A k \in DOMAIN Tail(s) : k + 1 \in DOMAIN s /\ Tail(s)[k] = s[k + 1]
          /\ \A k \in DOMAIN s : k = 1 \/ (k - 1 \in DOMAIN Tail(s) /\ s[k] = Tail(s)[k - 1])
          /\ 1 \in DOMAIN s
        OBVIOUS
    <2>2. \A k \in DOMAIN s : s[k] \in {s[1]} \cup ToSet(Tail(s))
        BY <2>1 DEF ToSet
    <2>3. \A k \in DOMAIN Tail(s) : Tail(s)[k] \in ToSet(s)
        BY <2>1 DEF ToSet
    <2>4. s[1] \in ToSet(s)
        BY <2>1 DEF ToSet
    <2>5. ToSet(s) \subseteq {s[1]} \cup ToSet(Tail(s))
        BY <2>2, Zenon DEF ToSet
    <2>6. ToSet(Tail(s)) \subseteq ToSet(s)
        BY <2>3, Zenon DEF ToSet
    <2> QED
        BY <2>4, <2>5, <2>6
<1> QED
    BY <1>1 DEF OnTheWay

LEMMA OnTheWayEmpty == OnTheWay(<<>>) = {}
BY DEF OnTheWay, ToSet

LEMMA NothingToCome ==
    ASSUME Inv, NEW r \in Receivers, Unsent(r) = 0 PROVE ToCome(r) = {}
<1>1. CASE sop.client_id = r /\ dpc = "powers"
    <2>1. Len(db.bundles) = 0 /\ db.bundles \in Seq(SUBSET Items)
        BY <1>1, DBType DEF Inv, Unsent
    <2>2. AllItems = {}
        BY <2>1 DEF AllItems, ToSet
    <2> QED
        BY <1>1, <2>2 DEF ToCome
<1>2. CASE sop.client_id = r /\ dpc = "join"
    <2> DEFINE left == {b \in DOMAIN tasks : tasks[b] # "sent"}
    <2>1. Cardinality(left) = 0
        BY <1>2 DEF Unsent
    <2>2. left = {}
        BY <2>1, UnsentTasks, FS_EmptySet DEF Inv
    <2> QED
        BY <1>2, <2>2 DEF ToCome
<1> QED
    BY <1>1, <1>2 DEF ToCome

\* The part of Still that concerns the sender, for receivers it does not serve.
LEMMA NotServed ==
    ASSUME NEW r \in Receivers, sop.client_id # r, sop'.client_id # r, inbox'[r] = inbox[r]
    PROVE  /\ Asked(r)' <=> Asked(r)
           /\ ToCome(r)' = ToCome(r) /\ ToCome(r) = {}
           /\ ~Owed(r) /\ ~Owed(r)'
BY DEF Asked, ToCome, Owed, Handled, Unsent
-----------------------------------------------------------------------------
(***************************************************************************)
(* Steps of the sender.  Every lemma shows that the step keeps Carried and *)
(* is a step of AbstractPSI or changes nothing it sees.                    *)
(***************************************************************************)
LEMMA StillAll ==
    ASSUME AllItems' = AllItems, \A r \in Receivers : Still(r)
    PROVE  AbstractStep
BY StillView, Stutters DEF AbstractStep

LEMMA UpdateDBRefines == ASSUME Inv, Inv', Carried, UpdateDB PROVE Carried' /\ AbstractStep
<1> USE DEF UpdateDB, senderVars, recvVars, resultVars
<1>1. ASSUME NEW r \in Receivers PROVE Still(r)
    BY DEF Still, Asked, ToCome
<1>2. ASSUME NEW r \in Receivers PROVE Carries(r)'
    <2>1. Owed(r)' => Owed(r)
        BY DEF Owed, Handled, Unsent
    <2> QED
        BY <2>1, CarriesStay DEF Carried
<1>3. AllItems' \subseteq Items
    <2>1. db'.bundles \in Seq(SUBSET Items)
        BY QueryProtocolAssumption DEF Inv, Types
    <2>2. ToSet(db'.bundles) \subseteq SUBSET Items
        BY <2>1 DEF ToSet
    <2> QED
        BY <2>2 DEF AllItems
<1>4. PSI!ChangeDB
    BY <1>1, <1>3, StillView, ChangesDB
<1> QED
    BY <1>2, <1>4 DEF Carried, AbstractStep, PSI!ANext

LEMMA StopRefines == ASSUME Carried, Stop PROVE Carried' /\ AbstractStep
<1> USE DEF Stop, recvVars, resultVars
<1>1. ASSUME NEW r \in Receivers PROVE Still(r)
    BY DEF Still, Asked, ToCome
<1>2. ASSUME NEW r \in Receivers PROVE Carries(r)'
    <2>1. Owed(r)' => Owed(r)
        BY DEF Owed, Handled, Unsent
    <2> QED
        BY <2>1, CarriesStay DEF Carried
<1>3. AllItems' = AllItems
    BY DEF AllItems
<1> QED
    BY <1>1, <1>2, <1>3, StillAll DEF Carried

LEMMA ReceiveOperationRefines ==
    ASSUME Inv, Carried, NEW r \in Receivers, ReceiveOperation(r) PROVE Carried' /\ AbstractStep
<1> USE DEF ReceiveOperation, recvVars, resultVars
<1>1. /\ inbox[r] \in Seq(OpMsg) /\ inbox[r] # <<>> /\ inbox'[r] = Tail(inbox[r])
      /\ \A x \in Receivers : x # r => inbox'[x] = inbox[x]
    BY DEF Inv, Types
<1>2. /\ Head(inbox[r]) = inbox[r][1] /\ 1 \in DOMAIN inbox[r]
      /\ \A k \in DOMAIN Tail(inbox[r]) : k + 1 \in DOMAIN inbox[r] /\ Tail(inbox[r])[k] = inbox[r][k + 1]
    BY <1>1
<1>3. sop' = inbox[r][1] /\ sop'.client_id = r
    BY <1>2 DEF Inv, Types
<1>4. ASSUME NEW x \in Receivers PROVE Still(x)
    <2>1. Asked(x)' <=> Asked(x)
        BY <1>1, <1>3 DEF Asked
    <2> QED
        BY <2>1 DEF Still, ToCome
<1>5. Carries(r)'
    <2>1. \A k \in DOMAIN inbox'[r] : inbox'[r][k].type = "query" => inbox'[r][k].items = ToSet(query[r])
        BY <1>1, <1>2 DEF Carried, Carries
    <2>2. Owed(r)' => sop'.items = ToSet(query[r])
        BY <1>2, <1>3 DEF Owed, Unsent, Carried, Carries
    <2> QED
        BY <2>1, <2>2 DEF Carried, Carries
<1>6. ASSUME NEW x \in Receivers, x # r PROVE Carries(x)'
    <2>1. ~Owed(x)'
        BY <1>3, <1>6 DEF Owed, Handled, Unsent
    <2> QED
        BY <1>1, <1>6, <2>1, CarriesStay DEF Carried
<1>7. AllItems' = AllItems
    BY DEF AllItems
<1> QED
    BY <1>4, <1>5, <1>6, <1>7, StillAll DEF Carried

\* A step for the receiver that is served touches no other.
LEMMA ServesOnly ==
    ASSUME Carried, NEW r \in Receivers, sop.client_id = r, sop' = sop,
           UNCHANGED <<inbox, recvVars>>,
           \A x \in Receivers : x # r => outbox'[x] = outbox[x] /\ (x \in logged' <=> x \in logged),
           Carries(r)'
    PROVE  Carried' /\ \A x \in Receivers : x # r => SameView(x)
<1> USE DEF recvVars, resultVars
<1>1. ASSUME NEW x \in Receivers, x # r PROVE SameView(x)
    <2>1. Still(x)
        BY <1>1, NotServed DEF Still
    <2> QED
        BY <2>1, StillView
<1>2. ASSUME NEW x \in Receivers, x # r PROVE Carries(x)'
    <2>1. ~Owed(x)'
        BY <1>2, NotServed
    <2> QED
        BY <1>2, <2>1, CarriesStay DEF Carried
<1> QED
    BY <1>1, <1>2 DEF Carried

\* A message about the query of the receiver it goes to.
LEMMA CarriesSend ==
    ASSUME NEW r \in Receivers, Carries(r), outbox[r] \in Seq(BackMsg), NEW msg \in BackMsg,
           outbox'[r] = Append(outbox[r], msg), msg.items \subseteq ToSet(query[r]),
           msg.type # "result" => msg.items = {},
           UNCHANGED <<inbox, recvVars>>, Owed(r)' => Owed(r) /\ sop' = sop
    PROVE  Carries(r)'
<1> USE DEF recvVars, resultVars
<1>1. /\ DOMAIN outbox'[r] = DOMAIN outbox[r] \cup {Len(outbox[r]) + 1}
      /\ outbox'[r][Len(outbox[r]) + 1] = msg
      /\ \A k \in DOMAIN outbox[r] : outbox'[r][k] = outbox[r][k]
    OBVIOUS
<1>2. \A k \in DOMAIN outbox'[r] : /\ outbox'[r][k].items \subseteq ToSet(query[r])
                                   /\ outbox'[r][k].type # "result" => outbox'[r][k].items = {}
    BY <1>1 DEF Carries
<1> QED
    BY <1>2 DEF Carries

LEMMA AnswerRequestRefines ==
    ASSUME Inv, Carried, RunRequest, sop.valid PROVE Carried' /\ AbstractStep
<1> USE DEF RunRequest, recvVars, resultVars
<1> DEFINE r == sop.client_id
           msg == Response(sop.type, 0)
<1>0. msg \in BackMsg /\ msg.type = sop.type /\ msg.items = {}
    BY DEF Response, BackMsg
<1> HIDE DEF msg
<1>1. /\ r \in Receivers /\ outbox[r] \in Seq(BackMsg) /\ outbox'[r] = Append(outbox[r], msg)
      /\ \A x \in Receivers : x # r => outbox'[x] = outbox[x]
    BY <1>0, Sends DEF Inv, msg
<1>2. PICK y \in Receivers : y = sop.client_id
    BY <1>1
<1>3. ~Owed(y)'
    BY DEF Owed, Handled, Unsent
<1>4. Carries(y)'
    BY <1>0, <1>1, <1>2, <1>3, CarriesSend DEF Carried
<1>5. Carried' /\ \A x \in Receivers : x # y => SameView(x)
    BY <1>1, <1>2, <1>4, ServesOnly
<1>6. SameView(y)
    <2>1. rpc[y] = "threw" \/ rpc[y] \in {"parms", "oprf"}
        BY <1>2, Served DEF Handled
    <2>2. Status(y)' = Status(y) /\ Status(y) \in {"failed", "idle"}
        BY <2>1 DEF Status, Querying
    <2>3. InRecords(y)' = InRecords(y)
        BY DEF InRecords
    <2> QED
        BY <2>2, <2>3 DEF SameView, Answer
<1>7. AllItems' = AllItems
    BY DEF AllItems
<1> QED
    BY <1>5, <1>6, <1>7, Stutters DEF AbstractStep

\* A query that is given up fails; to a receiver that made no query nothing
\* has happened.
LEMMA RefusedRefines ==
    ASSUME Inv, Carried, dpc = "dispatch", Abandon, UNCHANGED <<db, inbox, outbox, sop, tasks, recvVars>>
    PROVE  Carried' /\ AbstractStep
<1> USE DEF Abandon, recvVars, resultVars
<1>1. PICK r \in Receivers : r = sop.client_id
    BY DEF Inv, Types, OpMsg
<1>2. AllItems' = AllItems
    BY DEF AllItems
<1>3. ~Owed(r)'
    BY DEF Owed, Handled, Unsent
<1>4. Carries(r)'
    BY <1>3, CarriesStay DEF Carried
<1>5. Carried' /\ \A x \in Receivers : x # r => SameView(x)
    BY <1>1, <1>4, ServesOnly
<1>6. rpc[r] \in {"threw", "query", "parms", "oprf"}
    <2>1. sop.type \in {"parms", "oprf", "query"}
        BY DEF Inv, Types, OpMsg
    <2> QED
        BY <1>1, <2>1, Served DEF Handled
<1>7. CASE rpc[r] \in {"threw", "query"}
    BY <1>1, <1>2, <1>5, <1>7, GivesUpView
<1>8. CASE rpc[r] \in {"parms", "oprf"}
    <2>1. Status(r)' = "idle" /\ Status(r) = "idle"
        BY <1>8 DEF Status, Querying
    <2>2. InRecords(r)' = InRecords(r)
        BY DEF InRecords
    <2>3. SameView(r)
        BY <2>1, <2>2 DEF SameView, Answer
    <2> QED
        BY <1>2, <1>5, <2>3, Stutters DEF AbstractStep
<1> QED
    BY <1>5, <1>6, <1>7, <1>8

LEMMA RunRequestRefines ==
    ASSUME Inv, Carried, RunRequest PROVE Carried' /\ AbstractStep
BY AnswerRequestRefines, RefusedRefines DEF RunRequest

LEMMA StartQueryRefines ==
    ASSUME Inv, Carried, StartQuery PROVE Carried' /\ AbstractStep
<1> USE DEF StartQuery, recvVars, resultVars
<1>1. PICK r \in Receivers : r = sop.client_id
    BY DEF Inv, Types, OpMsg
<1>2. AllItems' = AllItems
    BY DEF AllItems
<1>3. CASE sop.valid
    <2>1. ASSUME NEW x \in Receivers PROVE Still(x)
        BY <1>3 DEF Still, Asked, ToCome
    <2>2. ASSUME NEW x \in Receivers PROVE Carries(x)'
        <3>1. Owed(x)' => Owed(x)
            BY <1>3 DEF Owed, Handled, Unsent
        <3> QED
            BY <3>1, CarriesStay DEF Carried
    <2> QED
        BY <1>2, <2>1, <2>2, StillAll DEF Carried
<1>4. CASE ~sop.valid
    BY <1>4, RefusedRefines
<1> QED
    BY <1>3, <1>4

LEMMA AnnounceRefines ==
    ASSUME Inv, Records, Carried, Announce PROVE Carried' /\ AbstractStep
<1> USE DEF Announce, recvVars, resultVars
<1> DEFINE msg == Response("query", Len(db.bundles))
<1>0. msg \in BackMsg /\ msg.items = {}
    BY DBType DEF Response, BackMsg, Inv
<1> HIDE DEF msg
<1>1. PICK r \in Receivers : r = sop.client_id
    BY DEF Inv, Types, OpMsg
<1>2. /\ outbox[r] \in Seq(BackMsg) /\ outbox'[r] = Append(outbox[r], msg)
      /\ \A x \in Receivers : x # r => outbox'[x] = outbox[x]
    BY <1>0, <1>1, Sends DEF Inv, msg
<1>3. AllItems' = AllItems /\ Handled(r) /\ sop.type = "query" /\ Owed(r)
    BY <1>1 DEF AllItems, Handled, Owed, Inv, Types
<1>4. Carries(r)'
    BY <1>0, <1>2, <1>3, CarriesSend DEF Carried
<1>5. Carried' /\ \A x \in Receivers : x # r => SameView(x)
    BY <1>1, <1>2, <1>4, ServesOnly
<1>6. CASE rpc[r] = "threw"
    BY <1>3, <1>5, <1>6, GivesUpView
<1>7. CASE rpc[r] = "query" /\ InHand(r)
    <2>1. Status(r) = "asked"
        BY <1>3, <1>7 DEF Status, Querying, InHand, Asked, Handled
    <2>2. ~Asked(r)'
        BY <1>7 DEF InHand, Asked
    <2>3. Status(r)' = "answered"
        BY <1>7, <2>2 DEF Status, Querying, InHand
    <2>4. Held(r)' = {}
        <3>1. \A w \in Tasks : part[r][w] = {}
            BY <1>7 DEF Records, Consistent
        <3> QED
            BY <3>1 DEF Held
    <2>5. OnTheWay(outbox[r])' = {}
        BY <1>0, <1>2, <1>7, OnTheWayAppend, OnTheWayEmpty DEF InHand
    <2>6. ToCome(r)' = AllItems \cap ToSet(query[r])
        <3>1. ToCome(r)' = AllItems \cap sop.items
            BY <1>1, <1>3 DEF ToCome
        <3> QED
            BY <1>3, <3>1 DEF Carried, Carries
    <2>7. Answer(r)' = ToSet(query[r]) \cap AllItems
        BY <1>7, <2>3, <2>4, <2>5, <2>6 DEF Answer
    <2>8. PSI!Evaluate(r)
        BY <1>3, <1>5, <2>1, <2>3, <2>7, Evaluates
    <2> QED
        BY <1>5, <2>8 DEF AbstractStep, PSI!ANext
<1> QED
    BY <1>3, <1>6, <1>7, Served

LEMMA ComputePowersRefines ==
    ASSUME Inv, Carried, ComputePowers PROVE Carried' /\ AbstractStep
<1> USE DEF ComputePowers, recvVars, resultVars
<1> DEFINE n == Len(db.bundles)
<1>1. PICK r \in Receivers : r = sop.client_id
    BY DEF Inv, Types, OpMsg
<1>2. n \in Nat /\ DOMAIN db.bundles = 1 .. n /\ (n = 0 <=> db.bundles = <<>>)
    <2>1. db.bundles \in Seq(SUBSET Items)
        BY DBType DEF Inv
    <2> QED
        BY <2>1
<1>3. AllItems' = AllItems /\ Unsent(r) = n
    BY <1>1 DEF AllItems, Unsent
<1>4. CASE db.bundles # <<>> /\ db.fault = "stale"
    <2>1. dpc' = "poll" /\ logged' = logged \cup {r}
        BY <1>1, <1>4 DEF Abandon
    <2>2. ~Owed(r)'
        BY <2>1 DEF Owed, Handled, Unsent
    <2>3. Carries(r)'
        BY <2>2, CarriesStay DEF Carried
    <2>4. Carried' /\ \A x \in Receivers : x # r => SameView(x)
        BY <1>1, <2>1, <2>3, ServesOnly
    <2>5. rpc[r] \in {"threw", "query", "working"}
        BY <1>2, <1>3, <1>4, Owes
    <2> QED
        BY <1>3, <2>1, <2>4, <2>5, GivesUpView
<1>5. CASE ~(db.bundles # <<>> /\ db.fault = "stale")
    <2>1. tasks' = [b \in 1 .. n |-> "queued"] /\ dpc' = "join" /\ logged' = logged
        BY <1>2, <1>5
    <2>2. {b \in DOMAIN tasks' : tasks'[b] # "sent"} = 1 .. n
        BY <2>1
    <2>3. Unsent(r)' = Unsent(r)
        <3>1. Cardinality(1 .. n) = n
            BY <1>2, FS_Interval
        <3>2. Unsent(r)' = Cardinality({b \in DOMAIN tasks' : tasks'[b] # "sent"})
            BY <1>1, <2>1 DEF Unsent
        <3> QED
            BY <1>3, <2>2, <3>1, <3>2
    <2>4. Owed(r)' => Owed(r)
        BY <2>1, <2>3 DEF Owed, Handled
    <2>5. Carries(r)'
        BY <2>4, CarriesStay DEF Carried
    <2>6. Carried' /\ \A x \in Receivers : x # r => SameView(x)
        BY <1>1, <2>1, <2>5, ServesOnly
    <2>7. ToCome(r)' = ToCome(r)
        <3>1. ToCome(r) = AllItems \cap sop.items
            BY <1>1 DEF ToCome
        <3>2. ToCome(r)' = UNION {db.bundles[b] \cap sop.items : b \in 1 .. n}
            BY <1>1, <2>1, <2>2 DEF ToCome, Matches
        <3>3. AllItems = UNION {db.bundles[b] : b \in 1 .. n}
            BY <1>2 DEF AllItems, ToSet
        <3> QED
            BY <3>1, <3>2, <3>3
    <2>8. Still(r)
        BY <2>1, <2>7 DEF Still, Asked
    <2> QED
        BY <1>3, <2>6, <2>8, StillView, Stutters DEF AbstractStep
<1> QED
    BY <1>4, <1>5

LEMMA ProcessBinBundleCacheRefines ==
    ASSUME Inv, Carried, NEW b \in DOMAIN tasks, ProcessBinBundleCache(b)
    PROVE  Carried' /\ AbstractStep
<1> USE DEF ProcessBinBundleCache, recvVars, resultVars
<1> DEFINE msg == ResultPackage(Matches(b))
           left == {c \in DOMAIN tasks : tasks[c] # "sent"}
<1>0. msg \in BackMsg /\ msg.type = "result" /\ msg.items = Matches(b)
    <2>1. Matches(b) \subseteq Items
        BY DEF Inv, Types, OpMsg, Matches
    <2> QED
        BY <2>1 DEF ResultPackage, BackMsg
<1> HIDE DEF msg
<1>1. PICK r \in Receivers : r = sop.client_id
    BY DEF Inv, Types, OpMsg
<1>2. /\ outbox[r] \in Seq(BackMsg) /\ outbox'[r] = Append(outbox[r], msg)
      /\ \A x \in Receivers : x # r => outbox'[x] = outbox[x]
    BY <1>0, <1>1, Sends DEF Inv, msg
<1>3. b \in left /\ {c \in DOMAIN tasks' : tasks'[c] # "sent"} = left \ {b}
    BY DEF Inv, Types
<1>4. Owed(r)
    <2>1. Cardinality(left) # 0
        BY <1>3, UnsentTasks, FS_EmptySet DEF Inv
    <2> QED
        BY <1>1, <2>1 DEF Owed, Unsent
<1>5. Carries(r)'
    <2>1. Matches(b) \subseteq ToSet(query[r])
        BY <1>4 DEF Carried, Carries, Matches
    <2> QED
        BY <1>0, <1>2, <1>4, <2>1, CarriesSend DEF Carried
<1>6. Carried' /\ \A x \in Receivers : x # r => SameView(x)
    BY <1>1, <1>2, <1>5, ServesOnly
<1>7. SameView(r)
    <2>1. (Asked(r)' <=> Asked(r)) /\ Status(r)' = Status(r)
        BY DEF Asked, Status, Querying
    <2>2. InRecords(r)' = InRecords(r) /\ Held(r)' = Held(r)
        BY DEF InRecords, Held
    <2>3. OnTheWay(outbox[r])' = OnTheWay(outbox[r]) \cup Matches(b)
        BY <1>0, <1>2, OnTheWayAppend
    <2>4. ToCome(r) = Matches(b) \cup ToCome(r)'
        <3>1. ToCome(r) = UNION {Matches(c) : c \in left}
            BY <1>1 DEF ToCome
        <3>2. ToCome(r)' = UNION {Matches(c) : c \in left \ {b}}
            BY <1>1, <1>3 DEF ToCome, Matches
        <3> HIDE DEF left
        <3> QED
            BY <1>3, <3>1, <3>2
    <2>5. Answer(r)' = Answer(r)
        BY <2>1, <2>2, <2>3, <2>4 DEF Answer
    <2> QED
        BY <2>1, <2>5 DEF SameView
<1>8. AllItems' = AllItems
    BY DEF AllItems
<1> QED
    BY <1>6, <1>7, <1>8, Stutters DEF AbstractStep

LEMMA ProcessThrowsRefines ==
    ASSUME Inv, Carried, NEW b \in DOMAIN tasks, ProcessThrows(b) PROVE Carried' /\ AbstractStep
<1> USE DEF ProcessThrows, recvVars, resultVars
<1>1. {c \in DOMAIN tasks' : tasks'[c] # "sent"} = {c \in DOMAIN tasks : tasks[c] # "sent"}
    BY DEF Inv, Types
<1>2. ASSUME NEW r \in Receivers PROVE Still(r)
    <2>1. ToCome(r)' = ToCome(r)
        BY <1>1 DEF ToCome, Matches
    <2> QED
        BY <2>1 DEF Still, Asked
<1>3. ASSUME NEW r \in Receivers PROVE Carries(r)'
    <2>1. Owed(r)' => Owed(r)
        BY <1>1 DEF Owed, Handled, Unsent
    <2> QED
        BY <2>1, CarriesStay DEF Carried
<1>4. AllItems' = AllItems
    BY DEF AllItems
<1> QED
    BY <1>2, <1>3, <1>4, StillAll DEF Carried

LEMMA JoinTasksRefines ==
    ASSUME Inv, Carried, JoinTasks PROVE Carried' /\ AbstractStep
<1> USE DEF JoinTasks, recvVars, resultVars
<1> DEFINE left == {b \in DOMAIN tasks : tasks[b] # "sent"}
<1>1. PICK r \in Receivers : r = sop.client_id
    BY DEF Inv, Types, OpMsg
<1>2. AllItems' = AllItems /\ dpc' = "poll"
    BY DEF AllItems, Abandon
<1>3. Carries(r)'
    <2>1. ~Owed(r)'
        BY <1>2 DEF Owed, Handled, Unsent
    <2> QED
        BY <2>1, CarriesStay DEF Carried
<1>4. \A x \in Receivers : x # r => (x \in logged' <=> x \in logged)
    BY <1>1 DEF Abandon
<1>5. Carried' /\ \A x \in Receivers : x # r => SameView(x)
    BY <1>1, <1>3, <1>4, ServesOnly
<1>6. CASE left = {}
    <2>1. logged' = logged
        BY <1>6
    <2>2. ToCome(r) = {}
        BY <1>1, <1>6 DEF ToCome
    <2>3. ToCome(r)' = {}
        BY <1>2 DEF ToCome
    <2>4. Still(r)
        BY <1>2, <2>1, <2>2, <2>3 DEF Still, Asked
    <2> QED
        BY <1>2, <1>5, <2>4, StillView, Stutters DEF AbstractStep
<1>7. CASE left # {}
    <2>1. logged' = logged \cup {r}
        BY <1>1, <1>7 DEF Abandon
    <2>2. Unsent(r) # 0
        BY <1>1, <1>7, UnsentTasks, FS_EmptySet DEF Inv, Unsent
    <2>3. rpc[r] \in {"threw", "query", "working"}
        BY <2>2, Owes
    <2> QED
        BY <1>2, <1>5, <2>1, <2>3, GivesUpView
<1> QED
    BY <1>6, <1>7
-----------------------------------------------------------------------------
(***************************************************************************)
(* Steps of the receivers.                                                 *)
(***************************************************************************)
\* A step of one receiver touches no other.
LEMMA StepsAlone ==
    ASSUME Carried, NEW r \in Receivers, UNCHANGED <<db, senderVars>>,
           \A x \in Receivers : x # r =>
              /\ rpc'[x] = rpc[x] /\ inbox'[x] = inbox[x] /\ outbox'[x] = outbox[x]
              /\ query'[x] = query[x] /\ mrs'[x] = mrs[x] /\ part'[x] = part[x],
           Carries(r)'
    PROVE  Carried' /\ (\A x \in Receivers : x # r => SameView(x)) /\ AllItems' = AllItems
<1> USE DEF senderVars
<1>1. ASSUME NEW x \in Receivers, x # r PROVE SameView(x)
    <2>1. ToCome(x)' = ToCome(x)
        BY DEF ToCome, AllItems, Matches
    <2>2. Still(x)
        BY <1>1, <2>1 DEF Still, Asked
    <2> QED
        BY <2>2, StillView
<1>2. ASSUME NEW x \in Receivers, x # r PROVE Carries(x)'
    <2>1. Owed(x)' => Owed(x)
        BY DEF Owed, Handled, Unsent
    <2> QED
        BY <1>2, <2>1, CarriesStay DEF Carried
<1> QED
    BY <1>1, <1>2 DEF Carried, AllItems

LEMMA ToComeStays ==
    ASSUME NEW r \in Receivers, UNCHANGED <<db, senderVars>>
    PROVE  /\ ToCome(r)' = ToCome(r) /\ (Owed(r)' => Owed(r))
           /\ inbox'[r] = inbox[r] => (Asked(r)' <=> Asked(r))
BY DEF ToCome, Owed, Handled, Unsent, Asked, AllItems, Matches, senderVars

LEMMA RequestRefines ==
    ASSUME Inv, Carried, NEW r \in Receivers, NEW type \in {"parms", "oprf"}, NEW valid \in BOOLEAN,
           Request(r, type, valid)
    PROVE  Carried' /\ AbstractStep
<1> USE DEF Request, CallEnabled, resultVars
<1> DEFINE op == [Operation(r, type) EXCEPT !.valid = valid]
<1>0. op.type = type
    BY DEF Operation
<1> HIDE DEF op
<1>1. inbox[r] = <<>> /\ rpc[r] = "idle"
    BY DEF Inv, CallInv, Settled
<1>2. /\ inbox'[r] = <<op>> /\ rpc'[r] = type
      /\ \A x \in Receivers : x # r => inbox'[x] = inbox[x] /\ rpc'[x] = rpc[x]
    <2>1. inbox' = [inbox EXCEPT ![r] = Append(@, op)] /\ rpc' = [rpc EXCEPT ![r] = type]
        BY DEF op
    <2>2. Append(<<>>, op) = <<op>>
        OBVIOUS
    <2> QED
        BY <1>1, <2>1, <2>2 DEF Inv, Types
<1>3. Carries(r)'
    <2>1. \A k \in DOMAIN inbox'[r] : inbox'[r][k].type # "query"
        <3>1. op.type # "query" /\ DOMAIN <<op>> = {1} /\ <<op>>[1] = op
            BY <1>0
        <3> QED
            BY <1>2, <3>1
    <2>2. Owed(r)' => Owed(r) /\ sop' = sop
        BY ToComeStays DEF senderVars
    <2> QED
        BY <2>1, <2>2 DEF Carried, Carries
<1>4. SameView(r)
    <2>1. Status(r) = "idle" /\ Status(r)' = "idle"
        BY <1>1, <1>2 DEF Status, Querying
    <2> QED
        BY <2>1 DEF SameView, Answer, InRecords
<1>5. Carried' /\ (\A x \in Receivers : x # r => SameView(x)) /\ AllItems' = AllItems
    BY <1>2, <1>3, StepsAlone
<1> QED
    BY <1>4, <1>5, Stutters DEF AbstractStep

LEMMA RequestQueryRefines ==
    ASSUME Inv, Records, Carried, NEW r \in Receivers, NEW q \in Queries, NEW valid \in BOOLEAN,
           RequestQuery(r, q, valid)
    PROVE  Carried' /\ AbstractStep
<1> USE DEF RequestQuery, CallEnabled, resultVars
<1> DEFINE op == [Operation(r, "query") EXCEPT !.items = ToSet(q), !.valid = valid]
<1>0. op.items = ToSet(q)
    BY DEF Operation
<1> HIDE DEF op
<1>1. /\ rpc[r] = "idle" /\ inbox[r] = <<>> /\ outbox[r] = <<>> /\ r \notin logged /\ Settled(r)
    BY DEF Inv, CallInv, Settled
<1>2. /\ inbox'[r] = <<op>> /\ rpc'[r] = "query" /\ query'[r] = q
      /\ \A x \in Receivers : x # r => inbox'[x] = inbox[x] /\ rpc'[x] = rpc[x] /\ query'[x] = query[x]
    BY <1>1 DEF Inv, Types, Records, op
<1>3. \A w \in Tasks : part[r][w] = {}
    BY <1>1 DEF Records, Consistent
<1>4. Carries(r)'
    <2>1. \A k \in DOMAIN inbox'[r] : inbox'[r][k].items = ToSet(q)
        BY <1>0, <1>2
    <2>2. ~Owed(r)'
        BY <1>1, ToComeStays DEF Settled, Owed
    <2>3. outbox'[r] = <<>> /\ part' = part
        BY <1>1
    <2> QED
        BY <1>2, <1>3, <2>1, <2>2, <2>3 DEF Carries
<1>5. Carried' /\ (\A x \in Receivers : x # r => SameView(x)) /\ AllItems' = AllItems
    BY <1>2, <1>4, StepsAlone
<1>6. Status(r) = "idle" /\ Status(r)' = "asked"
    <2>1. Asked(r)'
        BY <1>2 DEF Asked
    <2>2. r \notin logged'
        BY <1>1 DEF senderVars
    <2> QED
        BY <1>1, <1>2, <2>1, <2>2 DEF Status, Querying
<1>7. Answer(r)' = {}
    BY <1>6 DEF Answer
<1>8. ToSet(query[r])' \subseteq Items
    BY <1>2, QueryProtocolAssumption DEF ToSet
<1>9. PSI!Ask(r)
    BY <1>5, <1>6, <1>7, <1>8, Asks
<1> QED
    BY <1>5, <1>9 DEF AbstractStep, PSI!ANext

\* What a receiver takes from its channel.
LEMMA Takes ==
    ASSUME Types, NEW r \in Receivers, outbox[r] # <<>>, Receive(r)
    PROVE  /\ OnTheWay(outbox[r]) = outbox[r][1].items \cup OnTheWay(outbox'[r])
           /\ \A k \in DOMAIN outbox'[r] : k + 1 \in DOMAIN outbox[r] /\ outbox'[r][k] = outbox[r][k + 1]
<1>1. outbox[r] \in Seq(BackMsg) /\ outbox'[r] = Tail(outbox[r])
    BY DEF Types, Receive
<1>2. OnTheWay(outbox[r]) = outbox[r][1].items \cup OnTheWay(Tail(outbox[r]))
    BY <1>1, OnTheWayTail
<1>3. \A k \in DOMAIN Tail(outbox[r]) : k + 1 \in DOMAIN outbox[r]
                                        /\ Tail(outbox[r])[k] = outbox[r][k + 1]
    BY <1>1
<1> QED
    BY <1>1, <1>2, <1>3

LEMMA AwaitResponseRefines ==
    ASSUME Inv, Records, Carried, NEW r \in Receivers, AwaitResponse(r)
    PROVE  Carried' /\ AbstractStep
<1> DEFINE msg == outbox[r][1]
<1>0. /\ rpc[r] \in {"parms", "oprf", "query"} /\ outbox[r] # <<>> /\ Receive(r)
      /\ UNCHANGED <<db, inbox, senderVars, calls, query>>
    BY DEF AwaitResponse
<1>1. /\ \A x \in Receivers : x # r => outbox'[x] = outbox[x]
      /\ Head(outbox[r]) = msg /\ msg \in BackMsg
      /\ OnTheWay(outbox[r]) = msg.items \cup OnTheWay(outbox'[r])
      /\ \A k \in DOMAIN outbox'[r] : k + 1 \in DOMAIN outbox[r] /\ outbox'[r][k] = outbox[r][k + 1]
      /\ 1 \in DOMAIN outbox[r]
    BY <1>0, Receives, Takes DEF Inv
<1>2. \/ rpc[r] \in {"parms", "oprf", "query"} /\ Answered(r) /\ rpc[r] # "query"
      \/ rpc[r] = "query" /\ Announced(r)
    BY <1>0 DEF Inv, CallInv, Requested, InHand, Settled, Answered
<1>3. msg.type = rpc[r] /\ msg.items = {}
    <2>1. msg.type = rpc[r]
        BY <1>2 DEF Answered, Announced
    <2>2. msg.type # "result"
        BY <1>0, <2>1
    <2> QED
        BY <1>1, <2>1, <2>2 DEF Carried, Carries
<1>4. rpc' = [rpc EXCEPT ![r] = IF rpc[r] = "query" THEN "working" ELSE "idle"]
    BY <1>0, <1>1, <1>3 DEF AwaitResponse
<1>5. /\ rpc'[r] = (IF rpc[r] = "query" THEN "working" ELSE "idle")
      /\ \A x \in Receivers : x # r => rpc'[x] = rpc[x]
    BY <1>4 DEF Inv, Types
<1>6. part' = part /\ \A x \in Receivers : x # r => mrs'[x] = mrs[x]
    <2>1. CASE rpc'[r] = "working"
        BY <2>1 DEF AwaitResponse, Records
    <2>2. CASE rpc'[r] # "working"
        BY <2>2 DEF AwaitResponse, resultVars
    <2> QED
        BY <2>1, <2>2
<1>7. Carries(r)'
    <2>1. Owed(r)' => Owed(r) /\ sop' = sop
        BY <1>0, ToComeStays DEF senderVars
    <2> QED
        BY <1>0, <1>1, <1>6, <2>1 DEF Carried, Carries
<1>8. Carried' /\ (\A x \in Receivers : x # r => SameView(x)) /\ AllItems' = AllItems
    BY <1>0, <1>1, <1>5, <1>6, <1>7, StepsAlone
<1>9. SameView(r)
    <2>1. CASE rpc[r] # "query"
        <3>1. mrs' = mrs
            BY <1>5, <2>1 DEF AwaitResponse, resultVars
        <3>2. Status(r) = "idle" /\ Status(r)' = "idle"
            BY <1>0, <1>5, <2>1 DEF Status, Querying
        <3> QED
            BY <1>0, <3>1, <3>2 DEF SameView, Answer, InRecords
    <2>2. CASE rpc[r] = "query"
        <3>1. (Asked(r)' <=> Asked(r)) /\ ToCome(r)' = ToCome(r) /\ (r \in logged' <=> r \in logged)
            BY <1>0, ToComeStays DEF senderVars
        <3>2. Status(r)' = Status(r) /\ Status(r) # "idle"
            BY <1>5, <2>2, <3>1 DEF Status, Querying
        <3>3. InRecords(r)' = {}
            <4>1. mrs'[r] = NoMatch(query[r])
                BY <1>5, <2>2 DEF AwaitResponse, Records
            <4>2. {j \in DOMAIN mrs'[r] : mrs'[r][j]} = {}
                BY <4>1 DEF NoMatch
            <4> QED
                BY <4>2 DEF InRecords
        <3>4. Held(r)' = Held(r)
            BY <1>6 DEF Held
        <3>5. OnTheWay(outbox[r])' = OnTheWay(outbox[r])
            BY <1>1, <1>3
        <3>6. Answer(r)' = Answer(r)
            BY <1>5, <2>2, <3>1, <3>2, <3>3, <3>4, <3>5 DEF Answer
        <3> QED
            BY <1>0, <3>2, <3>6 DEF SameView
    <2> QED
        BY <2>1, <2>2
<1> QED
    BY <1>8, <1>9, Stutters DEF AbstractStep

LEMMA WorkerStill ==
    ASSUME Carried, NEW r \in Receivers,
           UNCHANGED <<db, inbox, outbox, senderVars, rpc, query, mrs, part>>
    PROVE  Carried' /\ AbstractStep
<1>1. Carries(r)'
    BY ToComeStays, CarriesStay DEF Carried, senderVars
<1>2. Carried' /\ (\A x \in Receivers : x # r => SameView(x)) /\ AllItems' = AllItems
    BY <1>1, StepsAlone
<1>3. Still(r)
    BY ToComeStays DEF Still, senderVars
<1> QED
    BY <1>2, <1>3, StillView, Stutters DEF AbstractStep

LEMMA ReceiveResultRefines ==
    ASSUME Inv, Records, Carried, NEW r \in Receivers, NEW w \in Tasks, ReceiveResult(r, w)
    PROVE  Carried' /\ AbstractStep
<1> DEFINE msg == outbox[r][1]
<1>0. /\ rpc[r] = "working" /\ wpc[r][w] = "receive" /\ outbox[r] # <<>> /\ Receive(r)
      /\ UNCHANGED <<db, inbox, senderVars, rpc, query, mrs>>
    BY DEF ReceiveResult, At
<1>1. /\ \A x \in Receivers : x # r => outbox'[x] = outbox[x]
      /\ Head(outbox[r]) = msg /\ 1 \in DOMAIN outbox[r]
      /\ OnTheWay(outbox[r]) = msg.items \cup OnTheWay(outbox'[r])
      /\ \A k \in DOMAIN outbox'[r] : k + 1 \in DOMAIN outbox[r] /\ outbox'[r][k] = outbox[r][k + 1]
    BY <1>0, Receives, Takes DEF Inv
<1>2. msg.type = "result"
    BY <1>0, <1>1 DEF Inv, CallInv, Working, AllResults
<1>3. part' = [part EXCEPT ![r][w] = msg.items] /\ part \in [Receivers -> [Tasks -> SUBSET Items]]
    BY <1>1, <1>2 DEF ReceiveResult, Records
<1>4. /\ part'[r][w] = msg.items /\ \A v \in Tasks : v # w => part'[r][v] = part[r][v]
      /\ \A x \in Receivers : x # r => part'[x] = part[x]
    BY <1>3
<1>5. part[r][w] = {}
    BY <1>0 DEF Records, Consistent
<1>6. Held(r)' = Held(r) \cup msg.items
    <2>1. Held(r)' \subseteq Held(r) \cup msg.items
        BY <1>4 DEF Held
    <2>2. msg.items \subseteq Held(r)'
        BY <1>4 DEF Held
    <2>3. Held(r) \subseteq Held(r)'
        BY <1>4, <1>5 DEF Held
    <2> QED
        BY <2>1, <2>2, <2>3
<1>7. Carries(r)'
    <2>1. Owed(r)' => Owed(r) /\ sop' = sop
        BY <1>0, ToComeStays DEF senderVars
    <2>2. \A v \in Tasks : part'[r][v] \subseteq ToSet(query[r])
        BY <1>1, <1>4 DEF Carried, Carries
    <2> QED
        BY <1>0, <1>1, <2>1, <2>2 DEF Carried, Carries
<1>8. Carried' /\ (\A x \in Receivers : x # r => SameView(x)) /\ AllItems' = AllItems
    BY <1>0, <1>1, <1>4, <1>7, StepsAlone
<1>9. SameView(r)
    <2>1. (Asked(r)' <=> Asked(r)) /\ ToCome(r)' = ToCome(r) /\ (r \in logged' <=> r \in logged)
        BY <1>0, ToComeStays DEF senderVars
    <2>2. Status(r)' = Status(r) /\ Status(r) # "idle"
        BY <1>0, <2>1 DEF Status, Querying
    <2>3. InRecords(r)' = InRecords(r)
        BY <1>0 DEF InRecords
    <2>4. OnTheWay(outbox[r])' \cup Held(r)' = OnTheWay(outbox[r]) \cup Held(r)
        BY <1>1, <1>6
    <2>5. Answer(r)' = Answer(r)
        BY <1>0, <2>1, <2>2, <2>3, <2>4 DEF Answer
    <2> QED
        BY <1>0, <2>2, <2>5 DEF SameView
<1> QED
    BY <1>8, <1>9, Stutters DEF AbstractStep

\* An item of a query has a last place in it.
LEMMA ItemIdxIs ==
    ASSUME NEW q \in Seq(Items), NEW x \in ToSet(q)
    PROVE  ItemIdx(q, x) \in DOMAIN q /\ q[ItemIdx(q, x)] = x
<1> DEFINE at == {i \in DOMAIN q : q[i] = x}
           less == {p \in Nat \X Nat : p[1] < p[2]}
           back == {Len(q) - i : i \in at}
<1>1. DOMAIN q = 1 .. Len(q) /\ Len(q) \in Nat
    OBVIOUS
<1>2. at # {}
    BY DEF ToSet
<1>3. back \subseteq Nat /\ back # {}
    BY <1>1, <1>2
<1>4. PICK m \in back : \A n \in back : ~(<<n, m>> \in less)
    <2>1. IsWellFoundedOn(less, Nat)
        BY NatLessThanWellFounded DEF OpToRel
    <2> HIDE DEF less, back
    <2> QED
        BY <1>3, <2>1, WFMin, Zenon
<1>5. PICK i \in at : m = Len(q) - i
    OBVIOUS
<1>6. \A j \in DOMAIN q : q[j] = x => j <= i
    <2> SUFFICES ASSUME NEW j \in DOMAIN q, q[j] = x, j > i PROVE FALSE
        BY <1>1, <1>5
    <2>1. Len(q) - j \in back /\ Len(q) - j \in Nat /\ Len(q) - j < m
        BY <1>1, <1>5
    <2>2. m \in Nat /\ ~(<<Len(q) - j, m>> \in less)
        BY <1>3, <1>4, <2>1
    <2> QED
        BY <2>1, <2>2
<1>7. \E k \in DOMAIN q : q[k] = x /\ \A j \in DOMAIN q : q[j] = x => j <= k
    BY <1>5, <1>6
<1> QED
    BY <1>7 DEF ItemIdx

LEMMA MergeRefines ==
    ASSUME Inv, Records, Carried, NEW r \in Receivers, NEW w \in Tasks, Merge(r, w)
    PROVE  Carried' /\ AbstractStep
<1>0. /\ rpc[r] = "working" /\ UNCHANGED <<db, inbox, outbox, senderVars, rpc, query>>
      /\ mrs' = [mrs EXCEPT ![r] = [i \in DOMAIN mrs[r] |-> mrs[r][i] \/ i \in Found(r, w)]]
      /\ part' = [part EXCEPT ![r][w] = {}]
    BY DEF Merge, At
<1>1. /\ query[r] \in Seq(Items) /\ mrs[r] \in Seq(BOOLEAN) /\ Len(mrs[r]) = Len(query[r])
      /\ part[r] \in [Tasks -> SUBSET Items]
    BY <1>0 DEF Records, Consistent
<1>2. DOMAIN mrs[r] = DOMAIN query[r]
    BY <1>1
<1>3. /\ mrs'[r] = [i \in DOMAIN mrs[r] |-> mrs[r][i] \/ i \in Found(r, w)]
      /\ part'[r] = [part[r] EXCEPT ![w] = {}]
      /\ \A x \in Receivers : x # r => mrs'[x] = mrs[x] /\ part'[x] = part[x]
    BY <1>0 DEF Records
<1>4. part[r][w] \subseteq ToSet(query[r])
    BY DEF Carried, Carries
<1>5. InRecords(r)' = InRecords(r) \cup part[r][w]
    <2> DEFINE hit == {j \in DOMAIN mrs[r] : mrs[r][j]}
    <2>1. \A x \in part[r][w] : ItemIdx(query[r], x) \in DOMAIN query[r]
                                /\ query[r][ItemIdx(query[r], x)] = x
        BY <1>1, <1>4, ItemIdxIs
    <2>2. {j \in DOMAIN mrs'[r] : mrs'[r][j]} = hit \cup Found(r, w)
        <3>1. Found(r, w) \subseteq DOMAIN mrs[r]
            BY <1>2, <2>1 DEF Found
        <3> QED
            BY <1>3, <3>1, Zenon
    <2>3. {query[r][i] : i \in Found(r, w)} = part[r][w]
        BY <2>1 DEF Found
    <2>4. InRecords(r)' = {query[r][i] : i \in hit \cup Found(r, w)}
        BY <1>0, <2>2 DEF InRecords
    <2>5. InRecords(r) = {query[r][i] : i \in hit}
        BY DEF InRecords
    <2> HIDE DEF hit
    <2> QED
        BY <2>3, <2>4, <2>5
<1>6. Held(r)' \cup part[r][w] = Held(r)
    <2>1. \A v \in Tasks : part'[r][v] = IF v = w THEN {} ELSE part[r][v]
        BY <1>1, <1>3
    <2> QED
        BY <2>1 DEF Held
<1>7. Carries(r)'
    <2>1. Owed(r)' => Owed(r) /\ sop' = sop
        BY <1>0, ToComeStays DEF senderVars
    <2>2. \A v \in Tasks : part'[r][v] \subseteq ToSet(query[r])
        BY <1>1, <1>3 DEF Carried, Carries
    <2> QED
        BY <1>0, <2>1, <2>2 DEF Carried, Carries
<1>8. Carried' /\ (\A x \in Receivers : x # r => SameView(x)) /\ AllItems' = AllItems
    BY <1>0, <1>3, <1>7, StepsAlone
<1>9. SameView(r)
    <2>1. (Asked(r)' <=> Asked(r)) /\ ToCome(r)' = ToCome(r) /\ (r \in logged' <=> r \in logged)
        BY <1>0, ToComeStays DEF senderVars
    <2>2. Status(r)' = Status(r) /\ Status(r) # "idle"
        BY <1>0, <2>1 DEF Status, Querying
    <2>3. InRecords(r)' \cup Held(r)' = InRecords(r) \cup Held(r)
        BY <1>5, <1>6
    <2>4. OnTheWay(outbox[r])' = OnTheWay(outbox[r])
        BY <1>0 DEF OnTheWay
    <2>5. Answer(r)' = Answer(r)
        BY <1>0, <2>1, <2>2, <2>3, <2>4 DEF Answer
    <2> QED
        BY <1>0, <2>2, <2>5 DEF SameView
<1> QED
    BY <1>8, <1>9, Stutters DEF AbstractStep

LEMMA JoinWorkersRefines ==
    ASSUME Inv, Inv', Records, Carried, NEW r \in Receivers, JoinWorkers(r)
    PROVE  Carried' /\ AbstractStep
<1>0. /\ rpc[r] = "working" /\ UNCHANGED <<db, inbox, outbox, senderVars, query>>
      /\ part' = [part EXCEPT ![r] = [w \in Tasks |-> {}]]
    BY DEF JoinWorkers
<1>1. /\ \A w \in Tasks : part'[r][w] = {}
      /\ \A x \in Receivers : x # r => part'[x] = part[x] /\ mrs'[x] = mrs[x] /\ rpc'[x] = rpc[x]
    BY <1>0 DEF JoinWorkers, Records, Inv, Types
<1>2. Carries(r)'
    <2>1. Owed(r)' => Owed(r) /\ sop' = sop
        BY <1>0, ToComeStays DEF senderVars
    <2> QED
        BY <1>0, <1>1, <2>1 DEF Carried, Carries
<1>3. Carried' /\ (\A x \in Receivers : x # r => SameView(x)) /\ AllItems' = AllItems
    BY <1>0, <1>1, <1>2, StepsAlone
<1>4. CASE \A w \in Tasks : wpc[r][w] \in {"none", "exit"}
    <2>1. rpc'[r] = "idle" /\ mrs' = mrs
        BY <1>4 DEF JoinWorkers, Inv, Types
    <2>2. Settled(r)' /\ r \notin logged'
        BY <2>1 DEF Inv, CallInv
    <2>3. inbox[r] = <<>> /\ outbox[r] = <<>> /\ ~Handled(r) /\ Unsent(r) = 0 /\ r \notin logged
        BY <1>0, <2>2 DEF Settled, Handled, Unsent, senderVars
    <2>4. Status(r) = "answered"
        BY <1>0, <2>3 DEF Status, Querying, Asked, Handled
    <2>5. Status(r)' = "idle"
        BY <2>1 DEF Status, Querying
    <2>6. Held(r) = {}
        <3>1. \A w \in Tasks : part[r][w] = {}
            BY <1>4 DEF Records, Consistent
        <3> QED
            BY <3>1 DEF Held
    <2>7. OnTheWay(outbox[r]) = {} /\ ToCome(r) = {}
        BY <2>3, OnTheWayEmpty, NothingToCome
    <2>8. InRecords(r)' = InRecords(r)
        BY <1>0, <2>1 DEF InRecords
    <2>9. Answer(r)' = Answer(r)
        BY <1>0, <2>4, <2>5, <2>6, <2>7, <2>8 DEF Answer
    <2>10. PSI!Return(r)
        BY <1>0, <1>3, <2>4, <2>5, <2>9, Returns
    <2> QED
        BY <1>3, <2>10 DEF AbstractStep, PSI!ANext
<1>5. CASE ~ \A w \in Tasks : wpc[r][w] \in {"none", "exit"}
    <2>1. rpc'[r] = "threw"
        BY <1>5 DEF JoinWorkers, Inv, Types
    <2> QED
        BY <1>0, <1>3, <2>1, GivesUpView
<1> QED
    BY <1>4, <1>5

LEMMA WorkerRefines ==
    ASSUME Inv, Records, Carried, NEW r \in Receivers, NEW w \in Tasks, RunWorker(r, w)
    PROVE  Carried' /\ AbstractStep
<1>1. CASE StartWorker(r, w) \/ Claim(r, w) \/ CheckDuplicates(r, w)
    BY <1>1, WorkerStill DEF StartWorker, Claim, CheckDuplicates
<1>2. CASE ReceiveResult(r, w)
    BY <1>2, ReceiveResultRefines
<1>3. CASE Merge(r, w)
    BY <1>3, MergeRefines
<1> QED
    BY <1>1, <1>2, <1>3 DEF RunWorker

LEMMA StutterRefines == ASSUME Carried, UNCHANGED vars PROVE Carried' /\ AbstractStep
<1> USE DEF vars, senderVars, recvVars, resultVars
<1>1. ASSUME NEW r \in Receivers PROVE Still(r)
    BY DEF Still, Asked, ToCome, Matches, AllItems
<1>2. ASSUME NEW r \in Receivers PROVE Carries(r)'
    <2>1. Owed(r)' => Owed(r)
        BY DEF Owed, Handled, Unsent
    <2> QED
        BY <2>1, CarriesStay DEF Carried
<1>3. AllItems' = AllItems
    BY DEF AllItems
<1> QED
    BY <1>1, <1>2, <1>3, StillAll DEF Carried
-----------------------------------------------------------------------------
LEMMA StepRefines ==
    Inv /\ Inv' /\ Records /\ Carried /\ [Next]_vars => Carried' /\ AbstractStep
<1> SUFFICES ASSUME Inv, Inv', Records, Carried, [Next]_vars PROVE Carried' /\ AbstractStep
    OBVIOUS
<1>1. CASE UpdateDB \/ Stop
    BY <1>1, UpdateDBRefines, StopRefines
<1>2. CASE Dispatch
    BY <1>2, ReceiveOperationRefines, RunRequestRefines, StartQueryRefines, AnnounceRefines,
       ComputePowersRefines, JoinTasksRefines DEF Dispatch
<1>3. ASSUME NEW b \in DOMAIN tasks, RunTask(b) PROVE Carried' /\ AbstractStep
    BY <1>3, ProcessBinBundleCacheRefines, ProcessThrowsRefines DEF RunTask
<1>4. ASSUME NEW r \in Receivers, NEW valid \in BOOLEAN, RequestParams(r) \/ RequestOPRF(r, valid)
      PROVE  Carried' /\ AbstractStep
    BY <1>4, RequestRefines DEF RequestParams, RequestOPRF
<1>5. ASSUME NEW r \in Receivers, NEW q \in Queries, NEW valid \in BOOLEAN,
             RequestQuery(r, q, valid)
      PROVE  Carried' /\ AbstractStep
    BY <1>5, RequestQueryRefines
<1>6. ASSUME NEW r \in Receivers, AwaitResponse(r) \/ JoinWorkers(r) PROVE Carried' /\ AbstractStep
    BY <1>6, AwaitResponseRefines, JoinWorkersRefines
<1>7. ASSUME NEW r \in Receivers, NEW w \in Tasks, RunWorker(r, w) PROVE Carried' /\ AbstractStep
    BY <1>7, WorkerRefines
<1>8. CASE Quiet \/ UNCHANGED vars
    BY <1>8, StutterRefines DEF Quiet
<1> QED
    BY <1>1, <1>2, <1>3, <1>4, <1>5, <1>6, <1>7, <1>8 DEF Next

LEMMA InitRefines == Init => PSI!AInit
<1> SUFFICES ASSUME Init PROVE PSI!AInit
    OBVIOUS
<1>1. AllItems \subseteq Items
    <2>1. db.bundles \in Seq(SUBSET Items)
        BY QueryProtocolAssumption DEF Init
    <2>2. ToSet(db.bundles) \subseteq SUBSET Items
        BY <2>1 DEF ToSet
    <2> QED
        BY <2>2 DEF AllItems
<1>2. ASSUME NEW r \in Receivers
      PROVE  Status(r) = "idle" /\ Answer(r) = {} /\ ToSet(query[r]) = {}
    <2>1. Status(r) = "idle"
        BY DEF Init, Status, Querying
    <2>2. InRecords(r) = {} /\ ToSet(query[r]) = {}
        BY DEF Init, InRecords, ToSet
    <2> QED
        BY <2>1, <2>2 DEF Answer
<1> QED
    BY <1>1, <1>2 DEF PSI!AInit

(***************************************************************************)
(* What a query returns are the items asked for that were in the sender's  *)
(* set at one moment between the call and its return, or the query fails:  *)
(* however the database changes, the operations of receivers meet at the   *)
(* dispatcher, packages are ordered and workers interleave.                *)
(***************************************************************************)
THEOREM AnswersAreOneLook == Spec => ImplementsAbstractPSI
<1>1. Inv /\ Inv' /\ Records /\ Carried /\ [Next]_vars => Carried' /\ [PSI!ANext]_(PSI!avars)
    BY StepRefines DEF AbstractStep
<1> QED
    BY <1>1, InvInit, InvNext, RecordsInit, RecordsNext, CarriedInit, InitRefines, PTL
       DEF Spec, ImplementsAbstractPSI, PSI!ASpec
=============================================================================
