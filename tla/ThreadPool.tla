----------------------------- MODULE ThreadPool -----------------------------
(***************************************************************************)
(* The thread pool (common/apsi/util/thread_pool.h) and the manager that   *)
(* creates and destroys it (common/apsi/thread_pool_mgr.cpp).              *)
(*                                                                         *)
(* Clients and the bodies of tasks are sequences of operations: take a     *)
(* manager, enqueue, wait for a future, let the manager go, and the calls  *)
(* that resize the pool or its queue.  A critical section of queue_mutex   *)
(* is one step; a thread that waits on a condition variable is in its wait *)
(* set until it is notified, or wakes for no reason.                       *)
(***************************************************************************)
EXTENDS Integers, Sequences, FiniteSets

CONSTANTS Clients, Tasks,
          Nobody,          \* tp_mutex is free
          Hardware,        \* hardware_concurrency(), the initial thread count
          MaxThreads,      \* bound: the largest pool a client asks for
          QueueLimit,      \* max_queue_size of a new pool
          Throwing,        \* the tasks that throw
          Programs,        \* bound: what the clients do, client -> operations
          Body             \* task -> operations

Workers == 0 .. MaxThreads - 1
Actors  == Clients \cup Workers

Op == [op : {"acquire", "release", "wait_until_empty", "wait_until_nothing_in_flight"}]
      \cup [op : {"enqueue", "get"}, task : Tasks]
      \cup [op : {"set_queue_size_limit"}, n : Nat]
      \cup [op : {"set_thread_count"}, n : 0 .. MaxThreads]

\* The managers still to be let go, less those still to be taken, in a
\* sequence of operations from the n-th on.
CountFrom(ops, op, n) == Cardinality({m \in n .. Len(ops) : ops[m].op = op})
Owed(ops, n) == CountFrom(ops, "release", n) - CountFrom(ops, "acquire", n)

\* The operations that are called on the pool, through a manager
PoolOps == {"enqueue", "set_queue_size_limit", "wait_until_empty", "wait_until_nothing_in_flight"}

\* A manager is an object of some scope: it is let go once, after it has been
\* taken, and the pool is used while there is one.
Scoped(ops) ==
    /\ Owed(ops, 1) = 0
    /\ \A n \in 1 .. Len(ops) : Owed(ops, n) >= IF ops[n].op \in PoolOps THEN 1 ELSE 0

ASSUME ThreadPoolAssumption ==
    /\ Hardware \in Nat \ {0} /\ MaxThreads \in Nat /\ Hardware <= MaxThreads
    /\ QueueLimit \in Nat \ {0} /\ Tasks # {}
    /\ Clients \cap Workers = {} /\ Nobody \notin Actors
    /\ Programs \subseteq [Clients -> Seq(Op)] /\ Body \in [Tasks -> Seq(Op)]

ASSUME ScopesAssumption ==
    /\ \A p \in Programs : \A c \in Clients : Scoped(p[c])
    /\ \A k \in Tasks : Scoped(Body[k])

VARIABLES
    alive,      \* thread_pool_ is set
    stop, pool_size, max_queue_size,
    workers,    \* workers.size(); the threads are 0 .. workers - 1
    tasks,      \* the queue
    in_flight,
    wpc,        \* where each worker is
    current,    \* the task a worker has taken
    consumers,  \* wait set of condition_consumers
    producers,  \* wait set of condition_producers
    idlers,     \* wait set of in_flight_condition
    todo,       \* what each actor still has to do
    stage,      \* "start", or "wait" once the actor has slept in its operation
    unwound,    \* actors whose program was cut short by an exception
    status,     \* task -> new, queued, running, ok, threw
    ref_count, tp_mutex,
    threads     \* phys_thread_count

poolVars == <<alive, stop, pool_size, max_queue_size, workers>>
mgrVars  == <<ref_count, tp_mutex, threads>>
vars == <<poolVars, tasks, in_flight, wpc, current, consumers, producers, idlers,
          todo, stage, unwound, status, mgrVars>>

\* Bug variant: a limit of zero is taken as it is.
Bug_AsIs(n) == n

AsOne(n) == IF n < 1 THEN 1 ELSE n

Init ==
    /\ alive = FALSE /\ stop = FALSE /\ pool_size = 0 /\ max_queue_size = QueueLimit
    /\ workers = 0 /\ tasks = <<>> /\ in_flight = 0
    /\ wpc = [v \in Workers |-> "none"]
    /\ current = [v \in Workers |-> CHOOSE k \in Tasks : TRUE]
    /\ consumers = {} /\ producers = {} /\ idlers = {}
    /\ \E p \in Programs :
         todo = [a \in Actors |-> IF a \in Clients THEN p[a] ELSE <<>>]
    /\ stage = [a \in Actors |-> "start"]
    /\ unwound = {}
    /\ status = [k \in Tasks |-> "new"]
    /\ ref_count = 0 /\ tp_mutex = Nobody /\ threads = Hardware
-----------------------------------------------------------------------------
Awake(a) == a \notin consumers \cup producers \cup idlers

\* The actor is about to perform, or is inside, an operation.
At(a, op) ==
    /\ todo[a] # <<>> /\ Head(todo[a]).op = op
    /\ Awake(a) /\ (a \in Workers => wpc[a] = "run")

Advance(a) ==
    /\ todo' = [todo EXCEPT ![a] = Tail(@)]
    /\ stage' = [stage EXCEPT ![a] = "start"]

Releases(n) == [j \in 1 .. n |-> [op |-> "release"]]

\* An exception leaves the program: only the managers it has are let go.
Unwind(a) ==
    /\ todo' = [todo EXCEPT ![a] = Releases(Owed(@, 1))]
    /\ stage' = [stage EXCEPT ![a] = "start"]
    /\ unwound' = unwound \cup {a}

Sleep(a) == stage' = [stage EXCEPT ![a] = "wait"] /\ UNCHANGED todo

\* Bug variant: enqueue notifies nobody.
Bug_NotifyNobody == UNCHANGED consumers

NotifyOneConsumer ==
    consumers' \in IF consumers = {} THEN {{}} ELSE {consumers \ {v} : v \in consumers}

(***************************************************************************)
(* ThreadPoolMgr                                                           *)
(***************************************************************************)
Acquire(a) ==
    /\ At(a, "acquire") /\ tp_mutex = Nobody
    /\ ref_count' = ref_count + 1
    /\ IF ref_count = 0
       THEN /\ alive' = TRUE /\ stop' = FALSE
            /\ pool_size' = threads /\ workers' = threads /\ max_queue_size' = QueueLimit
            /\ wpc' = [v \in Workers |-> IF v < threads THEN "check" ELSE "none"]
       ELSE UNCHANGED <<poolVars, wpc>>
    /\ Advance(a)
    /\ UNCHANGED <<tasks, in_flight, current, consumers, producers, idlers, unwound, status,
                   tp_mutex, threads>>

\* Bug variant: the pool goes with the first manager that goes.
Bug_ReleaseAlwaysDestroys(a) ==
    /\ At(a, "release") /\ stage[a] = "start" /\ tp_mutex = Nobody
    /\ ref_count' = ref_count - 1
    /\ stop' = TRUE /\ pool_size' = 0
    /\ consumers' = {a} /\ producers' = {}
    /\ tp_mutex' = a
    /\ Sleep(a)
    /\ UNCHANGED <<alive, workers, max_queue_size, tasks, in_flight, wpc, current, idlers, unwound,
                   status, threads>>

\* ~ThreadPoolMgr; the last one enters ~ThreadPool, which tells the workers
\* to stop and waits on condition_consumers, with tp_mutex held.
Release(a) ==
    /\ At(a, "release") /\ stage[a] = "start" /\ tp_mutex = Nobody
    /\ ref_count' = ref_count - 1
    /\ IF ref_count = 1
       THEN /\ stop' = TRUE /\ pool_size' = 0
            /\ consumers' = {a} /\ producers' = {}
            /\ tp_mutex' = a
            /\ Sleep(a)
       ELSE /\ Advance(a) /\ UNCHANGED <<stop, pool_size, consumers, producers, tp_mutex>>
    /\ UNCHANGED <<alive, workers, max_queue_size, tasks, in_flight, wpc, current, idlers, unwound,
                   status, threads>>

\* ~ThreadPool wakes up.
Destroy(a) ==
    /\ At(a, "release") /\ stage[a] = "wait"
    /\ IF workers = 0
       THEN /\ alive' = FALSE /\ tp_mutex' = Nobody /\ Advance(a)
            /\ UNCHANGED consumers
       ELSE /\ consumers' = consumers \cup {a}
            /\ UNCHANGED <<alive, tp_mutex, todo, stage>>
    /\ UNCHANGED <<stop, pool_size, max_queue_size, workers, tasks, in_flight, wpc, current,
                   producers, idlers, unwound, status, ref_count, threads>>

\* SetThreadCount, SetPhysThreadCount and set_pool_size.  New workers take
\* the numbers from workers.size() on; surplus workers are woken.
SetThreadCount(a) ==
    LET n == IF Head(todo[a]).n = 0 THEN Hardware ELSE Head(todo[a]).n
    IN
    /\ At(a, "set_thread_count") /\ tp_mutex = Nobody
    /\ threads' = n
    /\ IF alive /\ ~stop
       THEN /\ pool_size' = n
            /\ workers' = IF n > workers THEN n ELSE workers
            /\ wpc' = [v \in Workers |-> IF v \in workers .. n - 1 THEN "check" ELSE wpc[v]]
            /\ consumers' = IF n < workers THEN {} ELSE consumers
       ELSE UNCHANGED <<pool_size, workers, wpc, consumers>>
    /\ Advance(a)
    /\ UNCHANGED <<alive, stop, max_queue_size, tasks, in_flight, current, producers, idlers,
                   unwound, status, ref_count, tp_mutex>>
-----------------------------------------------------------------------------
(***************************************************************************)
(* ThreadPool                                                              *)
(***************************************************************************)

\* A full queue gets a limit twice as large, of which the other producers
\* hear.  Only if the limit had been lowered is the queue still too long, and
\* the producer waits.  Without a pool, or with a stopped one, it would
\* throw: see PoolIsAvailable.
Full(a) == stage[a] = "start" /\ Len(tasks) >= max_queue_size
Limit(a) == IF Full(a) THEN 2 * max_queue_size ELSE max_queue_size

EnqueueWaits(a) ==
    /\ At(a, "enqueue") /\ Len(tasks) >= Limit(a) /\ alive /\ ~stop
    /\ max_queue_size' = Limit(a)
    /\ producers' = {a} \cup IF Full(a) THEN {} ELSE producers
    /\ Sleep(a)
    /\ UNCHANGED <<alive, stop, pool_size, workers, tasks, in_flight, wpc, current, consumers,
                   idlers, unwound, status, mgrVars>>

Enqueue(a) ==
    LET k == Head(todo[a]).task
    IN
    /\ At(a, "enqueue") /\ Len(tasks) < Limit(a) /\ alive /\ ~stop
    /\ max_queue_size' = Limit(a)
    /\ producers' = IF Full(a) THEN {} ELSE producers
    /\ tasks' = Append(tasks, k)
    /\ in_flight' = in_flight + 1
    /\ status' = [status EXCEPT ![k] = "queued"]
    /\ NotifyOneConsumer
    /\ Advance(a)
    /\ UNCHANGED <<alive, stop, pool_size, workers, wpc, current, idlers, unwound, mgrVars>>

\* future.get(): an exception of the task leaves the caller too.
Get(a) ==
    LET k == Head(todo[a]).task
    IN
    /\ At(a, "get") /\ status[k] \in {"ok", "threw"}
    /\ IF status[k] = "ok" THEN Advance(a) /\ UNCHANGED unwound ELSE Unwind(a)
    /\ UNCHANGED <<poolVars, tasks, in_flight, wpc, current, consumers, producers, idlers, status,
                   mgrVars>>

SetQueueSizeLimit(a) ==
    /\ At(a, "set_queue_size_limit")
    /\ IF stop THEN UNCHANGED <<max_queue_size, producers>>
       ELSE /\ max_queue_size' = AsOne(Head(todo[a]).n)
            /\ producers' = IF max_queue_size < max_queue_size' THEN {} ELSE producers
    /\ Advance(a)
    /\ UNCHANGED <<alive, stop, pool_size, workers, tasks, in_flight, wpc, current, consumers,
                   idlers, unwound, status, mgrVars>>

WaitUntilEmpty(a) ==
    /\ At(a, "wait_until_empty")
    /\ IF tasks = <<>> THEN Advance(a) /\ UNCHANGED producers
       ELSE Sleep(a) /\ producers' = producers \cup {a}
    /\ UNCHANGED <<poolVars, tasks, in_flight, wpc, current, consumers, idlers, unwound, status,
                   mgrVars>>

WaitUntilNothingInFlight(a) ==
    /\ At(a, "wait_until_nothing_in_flight")
    /\ IF in_flight = 0 THEN Advance(a) /\ UNCHANGED idlers
       ELSE Sleep(a) /\ idlers' = idlers \cup {a}
    /\ UNCHANGED <<poolVars, tasks, in_flight, wpc, current, consumers, producers, unwound, status,
                   mgrVars>>
-----------------------------------------------------------------------------
(***************************************************************************)
(* The worker loop.  A surplus worker that is not the last one spins until *)
(* it is; that changes nothing and is no action.                           *)
(***************************************************************************)
Surplus(w) == IF stop THEN tasks = <<>> ELSE pool_size < w + 1

Ready(w, l) == wpc[w] = l /\ w \notin consumers

WorkerSleep(w) ==
    /\ Ready(w, "check") /\ ~stop /\ tasks = <<>> /\ ~Surplus(w)
    /\ consumers' = consumers \cup {w}
    /\ UNCHANGED <<poolVars, tasks, in_flight, wpc, current, producers, idlers, todo, stage,
                   unwound, status, mgrVars>>

\* Bug variant: the worker that leaves wakes nobody.
Bug_WorkerExitSilent(w) ==
    /\ Ready(w, "check") /\ Surplus(w) /\ w = workers - 1
    /\ workers' = workers - 1
    /\ wpc' = [wpc EXCEPT ![w] = "none"]
    /\ UNCHANGED <<alive, stop, pool_size, max_queue_size, tasks, in_flight, current, consumers,
                   producers, idlers, todo, stage, unwound, status, mgrVars>>

\* Bug variant: on stop a worker leaves with tasks still in the queue.
Bug_WorkerExitEarly(w) ==
    /\ Ready(w, "check") /\ (stop \/ Surplus(w)) /\ w = workers - 1
    /\ workers' = workers - 1
    /\ wpc' = [wpc EXCEPT ![w] = "none"]
    /\ consumers' = {}
    /\ UNCHANGED <<alive, stop, pool_size, max_queue_size, tasks, in_flight, current, producers,
                   idlers, todo, stage, unwound, status, mgrVars>>

WorkerExit(w) ==
    /\ Ready(w, "check") /\ Surplus(w) /\ w = workers - 1
    /\ workers' = workers - 1
    /\ wpc' = [wpc EXCEPT ![w] = "none"]
    /\ consumers' = {}
    /\ UNCHANGED <<alive, stop, pool_size, max_queue_size, tasks, in_flight, current, producers,
                   idlers, todo, stage, unwound, status, mgrVars>>

WorkerTake(w) ==
    LET k == Head(tasks)
        notify == Len(tasks) = max_queue_size \/ Len(tasks) = 1
    IN
    /\ Ready(w, "check") /\ tasks # <<>> /\ ~Surplus(w)
    /\ tasks' = Tail(tasks)
    /\ current' = [current EXCEPT ![w] = k]
    /\ status' = [status EXCEPT ![k] = "running"]
    /\ todo' = [todo EXCEPT ![w] = Body[k]]
    /\ stage' = [stage EXCEPT ![w] = "start"]
    /\ wpc' = [wpc EXCEPT ![w] = IF notify THEN "notify" ELSE "run"]
    /\ UNCHANGED <<poolVars, in_flight, consumers, producers, idlers, unwound, mgrVars>>

WorkerNotify(w) ==
    /\ Ready(w, "notify")
    /\ producers' = {}
    /\ wpc' = [wpc EXCEPT ![w] = "run"]
    /\ UNCHANGED <<poolVars, tasks, in_flight, current, consumers, idlers, todo, stage, unwound,
                   status, mgrVars>>

\* The task returns or throws; its future becomes ready.
TaskEnd(w) ==
    /\ wpc[w] = "run" /\ Awake(w) /\ todo[w] = <<>>
    /\ status' = [status EXCEPT ![current[w]] =
                    IF w \in unwound \/ current[w] \in Throwing THEN "threw" ELSE "ok"]
    /\ unwound' = unwound \ {w}
    /\ wpc' = [wpc EXCEPT ![w] = "finish"]
    /\ UNCHANGED <<poolVars, tasks, in_flight, current, consumers, producers, idlers, todo, stage,
                   mgrVars>>

\* Bug variant: the counter is decremented only when the task returned.
Bug_WorkerDecrementOnReturn(w) ==
    /\ Ready(w, "finish")
    /\ in_flight' = IF status[current[w]] = "threw" THEN in_flight ELSE in_flight - 1
    /\ wpc' = [wpc EXCEPT ![w] = IF in_flight' = 0 THEN "signal" ELSE "check"]
    /\ UNCHANGED <<poolVars, tasks, current, consumers, producers, idlers, todo, stage, unwound,
                   status, mgrVars>>

\* ~handle_in_flight_decrement: the decrement, then, if it was the last, the
\* notification.
WorkerDecrement(w) ==
    /\ Ready(w, "finish")
    /\ in_flight' = in_flight - 1
    /\ wpc' = [wpc EXCEPT ![w] = IF in_flight = 1 THEN "signal" ELSE "check"]
    /\ UNCHANGED <<poolVars, tasks, current, consumers, producers, idlers, todo, stage, unwound,
                   status, mgrVars>>

WorkerSignal(w) ==
    /\ Ready(w, "signal")
    /\ idlers' = {}
    /\ wpc' = [wpc EXCEPT ![w] = "check"]
    /\ UNCHANGED <<poolVars, tasks, in_flight, current, consumers, producers, todo, stage, unwound,
                   status, mgrVars>>

\* A condition variable may wake a thread that nobody notified.
SpuriousWake(a) ==
    /\ ~Awake(a)
    /\ consumers' = consumers \ {a}
    /\ producers' = producers \ {a}
    /\ idlers' = idlers \ {a}
    /\ UNCHANGED <<poolVars, tasks, in_flight, wpc, current, todo, stage, unwound, status, mgrVars>>
-----------------------------------------------------------------------------
ActorStep(a) ==
    \/ Acquire(a) \/ Release(a) \/ Destroy(a) \/ SetThreadCount(a)
    \/ EnqueueWaits(a) \/ Enqueue(a) \/ Get(a)
    \/ SetQueueSizeLimit(a) \/ WaitUntilEmpty(a) \/ WaitUntilNothingInFlight(a)

WorkerStep(w) ==
    \/ WorkerSleep(w) \/ WorkerExit(w) \/ WorkerTake(w) \/ WorkerNotify(w)
    \/ TaskEnd(w) \/ WorkerDecrement(w) \/ WorkerSignal(w)

Quiet == (\A a \in Actors : todo[a] = <<>>) /\ ~alive /\ UNCHANGED vars

Next ==
    \/ \E a \in Actors : ActorStep(a) \/ SpuriousWake(a)
    \/ \E w \in Workers : WorkerStep(w)
    \/ Quiet

Spec == Init /\ [][Next]_vars

\* The operating system runs every thread that can run.
FairSpec ==
    /\ Spec
    /\ \A a \in Actors : WF_vars(ActorStep(a))
    /\ \A w \in Workers : WF_vars(WorkerStep(w))
-----------------------------------------------------------------------------
Holding(w) == wpc[w] \in {"notify", "run", "finish"}

\* The types of the variables (members of ThreadPool, thread_pool.h:74-92).
TypeOK ==
    /\ alive \in BOOLEAN /\ stop \in BOOLEAN
    /\ pool_size \in 0 .. MaxThreads /\ workers \in 0 .. MaxThreads
    /\ max_queue_size \in Nat \ {0}
    /\ tasks \in Seq(Tasks) /\ in_flight \in Nat
    /\ wpc \in [Workers -> {"none", "check", "notify", "run", "finish", "signal"}]
    /\ current \in [Workers -> Tasks]
    /\ consumers \subseteq Actors /\ producers \subseteq Actors /\ idlers \subseteq Actors
    /\ status \in [Tasks -> {"new", "queued", "running", "ok", "threw"}]
    /\ ref_count \in Nat /\ tp_mutex \in Actors \cup {Nobody} /\ threads \in 1 .. MaxThreads

\* ~ThreadPool runs on behalf of a.
Leaving(a) == todo[a] # <<>> /\ Head(todo[a]).op = "release" /\ stage[a] = "wait"

\* The managers a holds
Managers(a) == Owed(todo[a], 1) - IF Leaving(a) THEN 1 ELSE 0

\* thread_pool() never throws "Thread pool is not available" and enqueue never
\* "enqueue on stopped ThreadPool": whoever holds a manager, as everyone does
\* that uses the pool, has a live pool, whatever the others let go meanwhile.
PoolIsAvailable ==
    \A a \in Actors :
        \/ Managers(a) > 0
        \/ todo[a] # <<>> /\ Head(todo[a]).op \in PoolOps
        => alive /\ ~stop

\* Every task accepted is in the queue or with one worker until it has run;
\* ~ThreadPool may assert(in_flight == 0) (thread_pool.h:163).
InFlightIsExact ==
    /\ alive => in_flight = Len(tasks) + Cardinality({w \in Workers : Holding(w)})
    /\ ~alive => in_flight = 0 /\ tasks = <<>> /\ \A w \in Workers : wpc[w] = "none"

\* No wake-up is lost: while tasks are queued not all workers sleep in wait for
\* work, so the one notify_one of enqueue is enough, even when the worker it
\* wakes has to leave the pool.
WorkIsNoticed ==
    tasks # <<>> => \E w \in Workers : wpc[w] # "none" /\ ~(wpc[w] = "check" /\ w \in consumers)

\* When the pool is destroyed every task that was enqueued has run.
ShutdownRunsEverything ==
    [][alive /\ ~alive' => \A k \in Tasks : status[k] \in {"new", "ok", "threw"}]_vars

\* Every client ends: no future, no producer and no destructor waits for ever.
ClientsEnd == <>(\A c \in Clients : todo[c] = <<>>)
=============================================================================
