---------------------------- MODULE QueryProtocol ----------------------------
(***************************************************************************)
(* The conversation of receivers with a sender: Receiver::RequestParams,   *)
(* RequestOPRF and request_query with its result workers, the loop of      *)
(* ZMQSenderDispatcher and the Run functions of Sender, and the ZeroMQ     *)
(* channel between them.                                                   *)
(*                                                                         *)
(* ZeroMQ keeps the messages of each pair of peers in order and loses none *)
(* (the high-water marks are raised for that); the dispatcher takes the    *)
(* operations of different receivers in any order.  Every receiver has the *)
(* channel, and so the client_id, to itself.                               *)
(*                                                                         *)
(* A result package is the set of items it will prove to hold; that the    *)
(* evaluation of the polynomials does so is not a matter of this module.   *)
(***************************************************************************)
EXTENDS Integers, Sequences, FiniteSets, SequencesExt

CONSTANTS Receivers, Items,
          Queries,        \* bound: the sequences of items receivers ask for
          DBs,            \* bound: the databases the sender may hold
          MaxCalls,       \* bound: the calls of all receivers together
          ThreadCount,    \* ThreadPoolMgr::GetThreadCount()
          PoolThreads,    \* the threads of the sender's pool
          Local           \* the receivers in the sender's process, which share its pool

Tasks == 1 .. ThreadCount

ASSUME QueryProtocolAssumption ==
    /\ ThreadCount \in Nat \ {0} /\ PoolThreads \in Nat \ {0} /\ MaxCalls \in Nat
    /\ Local \subseteq Receivers
    /\ \A q \in Queries : q \in Seq(Items)
    /\ \A d \in DBs : /\ d.bundles \in Seq(SUBSET Items)
                      /\ d.fault \in {"none", "stale", "eval"}

VARIABLES
    db,             \* the items in each bin bundle, and what a query will trip over:
                    \* a stale cache, or parameters the evaluation refuses
    inbox,          \* receiver -> operations on the way to the sender
    outbox,         \* receiver -> responses and result packages on the way back
    dpc,            \* where the dispatcher is
    sop,            \* the operation it handles
    tasks,          \* bundle -> the state of the task that evaluates it
    logged,         \* receivers for whose operation an exception was logged
    rpc,            \* receiver -> the call it is in
    calls,          \* the calls made so far
    query,          \* receiver -> the items of its last query
    mrs,            \* receiver -> position in the query -> found
    package_count,  \* receiver -> the packages no worker has claimed
    wpc,            \* receiver -> worker -> where it is
    part            \* receiver -> worker -> the items of the package it holds

senderVars == <<dpc, sop, tasks, logged>>
resultVars == <<mrs, package_count, wpc, part>>
recvVars   == <<rpc, calls, query, resultVars>>
vars == <<db, inbox, outbox, senderVars, recvVars>>

Response(type, count) == [type |-> type, count |-> count, items |-> {}]
ResultPackage(items)  == [type |-> "result", count |-> 0, items |-> items]
Operation(r, type)    == [client_id |-> r, type |-> type, items |-> {}, valid |-> TRUE]

NoMatch(q) == [i \in DOMAIN q |-> FALSE]

Init ==
    /\ db \in DBs
    /\ inbox = [r \in Receivers |-> <<>>] /\ outbox = [r \in Receivers |-> <<>>]
    /\ dpc = "poll" /\ tasks = <<>> /\ logged = {}
    /\ sop \in {Operation(r, "parms") : r \in Receivers}
    /\ rpc = [r \in Receivers |-> "idle"] /\ calls = 0
    /\ query = [r \in Receivers |-> <<>>] /\ mrs = [r \in Receivers |-> <<>>]
    /\ package_count = [r \in Receivers |-> 0]
    /\ wpc = [r \in Receivers |-> [w \in Tasks |-> "none"]]
    /\ part = [r \in Receivers |-> [w \in Tasks |-> {}]]

\* A thread of the sender's pool that waits for no package.  Evaluating a bundle
\* takes a thread for a while only, and is one step.
ThreadFree ==
    Cardinality({x \in Local \X Tasks :
                   rpc[x[1]] = "working" /\ wpc[x[1]][x[2]] \in {"claim", "receive", "merge", "write"}})
      < PoolThreads
-----------------------------------------------------------------------------
(***************************************************************************)
(* The sender                                                              *)
(***************************************************************************)
\* The SenderDB changes; RunQuery holds the reader lock from its start.
\* Bound: it changes only while there are operations still to be handled.
UpdateDB ==
    /\ dpc \notin {"announce", "powers", "join"}
    /\ calls < MaxCalls \/ dpc = "dispatch" \/ \E r \in Receivers : inbox[r] # <<>>
    /\ db' \in DBs
    /\ UNCHANGED <<inbox, outbox, senderVars, recvVars>>

ReceiveOperation(r) ==
    /\ dpc = "poll" /\ inbox[r] # <<>>
    /\ sop' = Head(inbox[r])
    /\ inbox' = [inbox EXCEPT ![r] = Tail(@)]
    /\ dpc' = "dispatch"
    /\ UNCHANGED <<db, outbox, tasks, logged, recvVars>>

\* The loop ends when the flag it is given is set.
Stop ==
    /\ dpc = "poll"
    /\ dpc' = "stopped"
    /\ UNCHANGED <<db, inbox, outbox, sop, tasks, logged, recvVars>>

SendTo(r, msg) == outbox' = [outbox EXCEPT ![r] = Append(@, msg)]

\* An exception is logged; the receiver hears nothing.
Abandon ==
    /\ logged' = logged \cup {sop.client_id}
    /\ dpc' = "poll"

\* RunParams and RunOPRF: one response.  The OPRF is computed on the pool; a
\* request that is not made of points throws there and is not answered.
RunRequest ==
    /\ dpc = "dispatch" /\ sop.type \in {"parms", "oprf"}
    /\ sop.type = "oprf" => ThreadFree
    /\ IF sop.valid THEN SendTo(sop.client_id, Response(sop.type, 0)) /\ dpc' = "poll" /\ UNCHANGED logged
       ELSE Abandon /\ UNCHANGED outbox
    /\ UNCHANGED <<db, inbox, sop, tasks, recvVars>>

\* The query is checked against the parameters; the reader lock is taken.
StartQuery ==
    /\ dpc = "dispatch" /\ sop.type = "query"
    /\ IF sop.valid THEN dpc' = "announce" /\ UNCHANGED logged ELSE Abandon
    /\ UNCHANGED <<db, inbox, outbox, sop, tasks, recvVars>>

\* Bug variant: the bundles are counted one short.
Bug_AnnounceOneLess ==
    /\ dpc = "announce"
    /\ SendTo(sop.client_id, Response("query", IF Len(db.bundles) > 1 THEN Len(db.bundles) - 1
                                               ELSE Len(db.bundles)))
    /\ dpc' = "powers"
    /\ UNCHANGED <<db, inbox, sop, tasks, logged, recvVars>>

\* Bug variant: one package too many is announced.
Bug_AnnounceOneMore ==
    /\ dpc = "announce"
    /\ SendTo(sop.client_id, Response("query", Len(db.bundles) + 1))
    /\ dpc' = "powers"
    /\ UNCHANGED <<db, inbox, sop, tasks, logged, recvVars>>

\* The response tells how many packages to expect.
Announce ==
    /\ dpc = "announce"
    /\ SendTo(sop.client_id, Response("query", Len(db.bundles)))
    /\ dpc' = "powers"
    /\ UNCHANGED <<db, inbox, sop, tasks, logged, recvVars>>

\* The powers are computed on the pool and a task is enqueued for each
\* bundle.  Reading a stale cache throws.
ComputePowers ==
    /\ dpc = "powers"
    /\ db.bundles = <<>> \/ ThreadFree
    /\ IF db.bundles # <<>> /\ db.fault = "stale" THEN Abandon /\ UNCHANGED tasks
       ELSE /\ tasks' = [b \in DOMAIN db.bundles |-> "queued"]
            /\ dpc' = "join" /\ UNCHANGED logged
    /\ UNCHANGED <<db, inbox, outbox, sop, recvVars>>

Matches(b) == db.bundles[b] \cap sop.items

ProcessBinBundleCache(b) ==
    /\ dpc = "join" /\ tasks[b] = "queued" /\ ThreadFree
    /\ SendTo(sop.client_id, ResultPackage(Matches(b)))
    /\ tasks' = [tasks EXCEPT ![b] = "sent"]
    /\ UNCHANGED <<db, inbox, dpc, sop, logged, recvVars>>

ProcessThrows(b) ==
    /\ dpc = "join" /\ tasks[b] = "queued" /\ ThreadFree /\ db.fault = "eval"
    /\ tasks' = [tasks EXCEPT ![b] = "threw"]
    /\ UNCHANGED <<db, inbox, outbox, dpc, sop, logged, recvVars>>

\* Bug variant: the query ends with its last task, not with all of them.
Bug_JoinLast ==
    /\ dpc = "join"
    /\ IF \A b \in DOMAIN tasks : b = Len(db.bundles) => tasks[b] = "sent"
       THEN dpc' = "poll" /\ UNCHANGED logged
       ELSE /\ \E b \in DOMAIN tasks :
                  tasks[b] = "threw" /\ \A c \in 1 .. b - 1 : tasks[c] = "sent"
            /\ Abandon
    /\ tasks' = <<>>
    /\ UNCHANGED <<db, inbox, outbox, sop, recvVars>>

\* The futures are waited for in order.  After an exception the other tasks
\* work with freed ciphertexts: nothing more is said of them.
JoinTasks ==
    /\ dpc = "join"
    /\ IF \A b \in DOMAIN tasks : tasks[b] = "sent" THEN dpc' = "poll" /\ UNCHANGED logged
       ELSE /\ \E b \in DOMAIN tasks :
                  tasks[b] = "threw" /\ \A c \in 1 .. b - 1 : tasks[c] = "sent"
            /\ Abandon
    /\ tasks' = <<>>
    /\ UNCHANGED <<db, inbox, outbox, sop, recvVars>>

Dispatch ==
    \/ \E r \in Receivers : ReceiveOperation(r)
    \/ RunRequest \/ StartQuery \/ Announce \/ ComputePowers \/ JoinTasks

RunTask(b) == ProcessBinBundleCache(b) \/ ProcessThrows(b)
-----------------------------------------------------------------------------
(***************************************************************************)
(* The receiver.  A call that throws ends the receiver, as it does in      *)
(* cli/receiver: it does not use its channel again.  A query that does not *)
(* fit into the cuckoo table throws before anything is sent and changes    *)
(* nothing here.                                                           *)
(***************************************************************************)
CallEnabled(r) == rpc[r] = "idle" /\ calls < MaxCalls

Request(r, type, valid) ==
    /\ CallEnabled(r)
    /\ rpc' = [rpc EXCEPT ![r] = type] /\ calls' = calls + 1
    /\ inbox' = [inbox EXCEPT ![r] = Append(@, [Operation(r, type) EXCEPT !.valid = valid])]
    /\ UNCHANGED <<db, outbox, senderVars, query, resultVars>>

RequestParams(r)      == Request(r, "parms", TRUE)
RequestOPRF(r, valid) == Request(r, "oprf", valid)

\* A query made with other parameters than the sender's is not valid.
RequestQuery(r, q, valid) ==
    /\ CallEnabled(r)
    /\ rpc' = [rpc EXCEPT ![r] = "query"] /\ calls' = calls + 1
    /\ query' = [query EXCEPT ![r] = q]
    /\ inbox' = [inbox EXCEPT ![r] =
                   Append(@, [Operation(r, "query") EXCEPT !.items = ToSet(q), !.valid = valid])]
    /\ UNCHANGED <<db, outbox, senderVars, resultVars>>

Receive(r) == outbox' = [outbox EXCEPT ![r] = Tail(@)]

\* Responses of another type are dropped; a result package throws.
AwaitResponse(r) ==
    LET msg == Head(outbox[r]) IN
    /\ rpc[r] \in {"parms", "oprf", "query"} /\ outbox[r] # <<>>
    /\ Receive(r)
    /\ rpc' = [rpc EXCEPT ![r] = IF msg.type = "result" THEN "threw"
                                 ELSE IF msg.type # @ THEN @
                                 ELSE IF @ = "query" THEN "working" ELSE "idle"]
    /\ IF rpc'[r] = "working"
       THEN /\ mrs' = [mrs EXCEPT ![r] = NoMatch(query[r])]
            /\ package_count' = [package_count EXCEPT ![r] = msg.count]
            /\ wpc' = [wpc EXCEPT ![r] =
                         [w \in Tasks |-> IF w <= msg.count THEN "queued" ELSE "none"]]
            /\ UNCHANGED part
       ELSE UNCHANGED resultVars
    /\ UNCHANGED <<db, inbox, senderVars, calls, query>>

At(r, w, l) == rpc[r] = "working" /\ wpc[r][w] = l
Goto(r, w, l) == wpc' = [wpc EXCEPT ![r][w] = l]

StartWorker(r, w) ==
    /\ At(r, w, "queued") /\ (r \in Local => ThreadFree)
    /\ Goto(r, w, "claim")
    /\ UNCHANGED <<db, inbox, outbox, senderVars, rpc, calls, query, mrs, package_count, part>>

\* One package is claimed by counting down; without packages the task ends.
Claim(r, w) ==
    /\ At(r, w, "claim")
    /\ IF package_count[r] = 0 THEN Goto(r, w, "exit") /\ UNCHANGED package_count
       ELSE /\ package_count' = [package_count EXCEPT ![r] = @ - 1]
            /\ Goto(r, w, "receive")
    /\ UNCHANGED <<db, inbox, outbox, senderVars, rpc, calls, query, mrs, part>>

ReceiveResult(r, w) ==
    LET msg == Head(outbox[r]) IN
    /\ At(r, w, "receive") /\ outbox[r] # <<>>
    /\ Receive(r)
    /\ IF msg.type = "result"
       THEN Goto(r, w, "merge") /\ part' = [part EXCEPT ![r][w] = msg.items]
       ELSE Goto(r, w, "threw") /\ UNCHANGED part
    /\ UNCHANGED <<db, inbox, senderVars, rpc, calls, query, mrs, package_count>>

\* Where the index translation table puts an item: an item that stands at
\* several places of the query has one place in the cuckoo table, and its last
\* place in the query overwrites the others.
ItemIdx(q, x) == CHOOSE i \in DOMAIN q : q[i] = x /\ \A j \in DOMAIN q : q[j] = x => j <= i

Found(r, w) == {ItemIdx(query[r], x) : x \in part[r][w]}

\* process_result_part and the first look at the records: an item that has
\* been found before throws.
CheckDuplicates(r, w) ==
    /\ At(r, w, "merge")
    /\ IF \E i \in Found(r, w) : mrs[r][i] THEN Goto(r, w, "threw")
       ELSE Goto(r, w, "write")
    /\ UNCHANGED <<db, inbox, outbox, senderVars, rpc, calls, query, mrs, package_count, part>>

\* Bug variant: the records of the package replace those found before.
Bug_MergeReplaces(r, w) ==
    /\ At(r, w, "write")
    /\ mrs' = [mrs EXCEPT ![r] = [i \in DOMAIN @ |-> i \in Found(r, w)]]
    /\ part' = [part EXCEPT ![r][w] = {}]
    /\ Goto(r, w, "claim")
    /\ UNCHANGED <<db, inbox, outbox, senderVars, rpc, calls, query, package_count>>

\* Bug variant: the worker keeps the package.
Bug_MergeKeepsPart(r, w) ==
    /\ At(r, w, "write")
    /\ mrs' = [mrs EXCEPT ![r] = [i \in DOMAIN @ |-> @[i] \/ i \in Found(r, w)]]
    /\ Goto(r, w, "claim")
    /\ UNCHANGED <<db, inbox, outbox, senderVars, rpc, calls, query, package_count, part>>

\* No lock is held between the look at the records and their change.
Merge(r, w) ==
    /\ At(r, w, "write")
    /\ mrs' = [mrs EXCEPT ![r] = [i \in DOMAIN @ |-> @[i] \/ i \in Found(r, w)]]
    /\ part' = [part EXCEPT ![r][w] = {}]
    /\ Goto(r, w, "claim")
    /\ UNCHANGED <<db, inbox, outbox, senderVars, rpc, calls, query, package_count>>

\* The futures are waited for in order.  After an exception the other workers
\* use freed variables: nothing more is said of them.
JoinWorkers(r) ==
    /\ rpc[r] = "working"
    /\ IF \A w \in Tasks : wpc[r][w] \in {"none", "exit"}
       THEN rpc' = [rpc EXCEPT ![r] = "idle"] /\ UNCHANGED mrs
       ELSE /\ \E w \in Tasks : wpc[r][w] = "threw" /\ \A v \in 1 .. w - 1 : wpc[r][v] = "exit"
            /\ rpc' = [rpc EXCEPT ![r] = "threw"]
            /\ mrs' = [mrs EXCEPT ![r] = NoMatch(query[r])]
    /\ wpc' = [wpc EXCEPT ![r] = [w \in Tasks |-> "none"]]
    /\ part' = [part EXCEPT ![r] = [w \in Tasks |-> {}]]
    /\ UNCHANGED <<db, inbox, outbox, senderVars, calls, query, package_count>>

RunWorker(r, w) ==
    \/ StartWorker(r, w) \/ Claim(r, w) \/ ReceiveResult(r, w)
    \/ CheckDuplicates(r, w) \/ Merge(r, w)

\* Nobody has anything left to do.
Quiet ==
    /\ \A r \in Receivers : ~CallEnabled(r) /\ inbox[r] = <<>>
    /\ UNCHANGED vars

Next ==
    \/ UpdateDB \/ Stop \/ Dispatch
    \/ \E b \in DOMAIN tasks : RunTask(b)
    \/ \E r \in Receivers :
         \/ RequestParams(r)
         \/ \E valid \in BOOLEAN : \/ RequestOPRF(r, valid)
                                   \/ \E q \in Queries : RequestQuery(r, q, valid)
         \/ AwaitResponse(r) \/ JoinWorkers(r)
         \/ \E w \in Tasks : RunWorker(r, w)
    \/ Quiet

Spec == Init /\ [][Next]_vars

MaxBundles == 3

\* The dispatcher polls for ever, the tasks and the workers are run by the
\* threads of the pool in the order in which they were enqueued, and a receiver
\* that waits polls its channel.  Nobody has to call, to stop the dispatcher or
\* to change the database.
FairSpec ==
    /\ Spec /\ WF_vars(Dispatch)
    /\ \A b \in 1 .. MaxBundles : WF_vars(b \in DOMAIN tasks /\ RunTask(b))
    /\ \A r \in Receivers : /\ WF_vars(AwaitResponse(r) \/ JoinWorkers(r))
                            /\ \A w \in Tasks : WF_vars(RunWorker(r, w))
-----------------------------------------------------------------------------
\* The types of the variables.  A worker holds no items unless it has received
\* them and not yet merged them.
TypeOK ==
    /\ db \in DBs
    /\ \A r \in Receivers :
         /\ \A m \in ToSet(outbox[r]) : m.items \subseteq Items /\ m.count \in Nat
         /\ \A o \in ToSet(inbox[r]) : o.client_id = r
         /\ rpc[r] \in {"idle", "parms", "oprf", "query", "working", "threw"}
         /\ package_count[r] \in Nat
         /\ mrs[r] \in Seq(BOOLEAN)
         /\ rpc[r] = "working" => Len(mrs[r]) = Len(query[r])
         /\ \A w \in Tasks : part[r][w] # {} => wpc[r][w] \in {"merge", "write", "threw"}
    /\ dpc \in {"poll", "dispatch", "announce", "powers", "join", "stopped"}
    /\ tasks # <<>> => dpc = "join"
    /\ logged \subseteq Receivers /\ calls \in 0 .. MaxCalls

\* The places of result packages among what is on the way to receiver r.
Results(r) == {k \in DOMAIN outbox[r] : outbox[r][k].type = "result"}

\* The packages the sender still owes receiver r.
Unsent(r) ==
    IF sop.client_id # r THEN 0
    ELSE CASE dpc = "powers" -> Len(db.bundles)
           [] dpc = "join" -> Cardinality({b \in DOMAIN tasks : tasks[b] # "sent"})
           [] OTHER -> 0

\* The packages a receiver has yet to receive are those the sender has yet to
\* send and those on the way, unless the sender gave up: no worker waits for a
\* package that does not come, and none is left in the channel.
PackagesBalance ==
    \A r \in Receivers :
        rpc[r] = "working" /\ r \notin logged =>
            package_count[r] + Cardinality({w \in Tasks : wpc[r][w] = "receive"})
              = Cardinality(Results(r)) + Unsent(r)

\* Nothing but what the receiver waits for is on the way to it: a call that has
\* returned leaves nothing behind that the next call would take for its own.
OnlyAwaited ==
    \A r \in Receivers : \A k \in DOMAIN outbox[r] :
        LET type == outbox[r][k].type IN
        \/ rpc[r] \in {"parms", "oprf"} /\ type = rpc[r]
        \/ rpc[r] = "query" /\ type = IF k = 1 THEN "query" ELSE "result"
        \/ rpc[r] = "working" /\ type = "result"
        \/ rpc[r] = "threw"

\* A request that waits is answered, unless the sender logged an exception for
\* it or was stopped.
CallsEnd ==
    \A r \in Receivers :
        rpc[r] \in {"parms", "oprf", "query", "working"} ~>
            rpc[r] \in {"idle", "threw"} \/ r \in logged \/ dpc = "stopped"
-----------------------------------------------------------------------------
(***************************************************************************)
(* A query is one look at the database: the items found, those in the      *)
(* packages on the way and those of bundles still to be evaluated are at   *)
(* every moment the answer the receiver will get.                          *)
(***************************************************************************)
AllItems == UNION ToSet(db.bundles)

Asked(r) == inbox[r] # <<>> \/ (sop.client_id = r /\ dpc \in {"dispatch", "announce"})

Querying(r) == rpc[r] \in {"query", "working"}

Status(r) ==
    CASE rpc[r] = "threw" \/ (Querying(r) /\ r \in logged) -> "failed"
      [] Querying(r) /\ r \notin logged /\ Asked(r) -> "asked"
      [] Querying(r) /\ r \notin logged /\ ~Asked(r) -> "answered"
      [] OTHER -> "idle"

InRecords(r) == {query[r][i] : i \in {j \in DOMAIN mrs[r] : mrs[r][j]}}

ToCome(r) ==
    IF sop.client_id # r THEN {}
    ELSE CASE dpc = "powers" -> AllItems \cap sop.items
           [] dpc = "join" -> UNION {Matches(b) : b \in {c \in DOMAIN tasks : tasks[c] # "sent"}}
           [] OTHER -> {}

OnTheWay(s) == UNION {m.items : m \in ToSet(s)}
Held(r)     == UNION {part[r][w] : w \in Tasks}

Answer(r) ==
    CASE Status(r) = "answered" ->
           (IF rpc[r] = "working" THEN InRecords(r) ELSE {})
             \cup Held(r) \cup OnTheWay(outbox[r]) \cup ToCome(r)
      [] Status(r) = "idle" -> InRecords(r)
      [] OTHER -> {}

PSI == INSTANCE AbstractPSI WITH
         db     <- AllItems,
         status <- [r \in Receivers |-> Status(r)],
         wanted <- [r \in Receivers |-> ToSet(query[r])],
         answer <- [r \in Receivers |-> Answer(r)]

\* The answers are those of one look at the set the sender held between the
\* call and its return (receiver.h:150-153), however the database changes, the
\* packages are ordered and the workers interleave.
ImplementsAbstractPSI == PSI!ASpec
=============================================================================
