-------------------------- MODULE ThreadPoolProofs --------------------------
(***************************************************************************)
(* Theorems about ThreadPool for any number of clients, tasks and threads  *)
(* and any programs, nested dispatches included.                           *)
(***************************************************************************)
EXTENDS ThreadPool, FiniteSetTheorems, SequenceTheorems, TLAPS

Types ==
    /\ alive \in BOOLEAN /\ stop \in BOOLEAN
    /\ pool_size \in 0 .. MaxThreads /\ workers \in 0 .. MaxThreads
    /\ threads \in 1 .. MaxThreads
    /\ tasks \in Seq(Tasks)
    /\ wpc \in [Workers -> {"none", "check", "notify", "run", "finish", "signal"}]
    /\ consumers \subseteq Actors
    /\ todo \in [Actors -> Seq(Op)]
    /\ stage \in [Actors -> {"start", "wait"}]
    /\ ref_count \in Int
    /\ tp_mutex \in Actors \cup {Nobody}

\* The manager: a pool that works is referenced; a pool that stops has a
\* destructor, which holds tp_mutex.
MgrInv ==
    /\ ref_count > 0 <=> alive /\ ~stop
    /\ tp_mutex # Nobody <=> alive /\ stop
    /\ \A a \in Actors :
         todo[a] # <<>> /\ Head(todo[a]).op = "release" /\ stage[a] = "wait" => tp_mutex = a

\* The workers: numbered without gaps; none without a pool; one at least until
\* the pool stops, and as long as there are tasks; only workers that found no
\* task and the destructor sleep on condition_consumers.
WorkersInv ==
    /\ \A v \in Workers : wpc[v] # "none" <=> v < workers
    /\ ~alive => workers = 0
    /\ alive /\ ~stop => pool_size >= 1 /\ workers >= 1
    /\ workers = 0 => tasks = <<>>
    /\ \A a \in consumers : a = tp_mutex \/ (a \in Workers /\ wpc[a] = "check")

PoolInv == Types /\ MgrInv /\ WorkersInv /\ WorkIsNoticed

LEMMA CountFromType ==
    ASSUME NEW ops \in Seq(Op), NEW op, NEW n \in Nat
    PROVE  IsFiniteSet({m \in n .. Len(ops) : ops[m].op = op}) /\ CountFrom(ops, op, n) \in Nat
<1>1. IsFiniteSet(n .. Len(ops))
    BY FS_Interval
<1> QED
    BY <1>1, FS_Subset, FS_CardinalityType DEF CountFrom

LEMMA OwedType == ASSUME NEW ops \in Seq(Op), NEW n \in Nat PROVE Owed(ops, n) \in Int
<1>1. CountFrom(ops, "release", n) \in Nat /\ CountFrom(ops, "acquire", n) \in Nat
    BY CountFromType, Zenon
<1> QED
    BY <1>1 DEF Owed

LEMMA ReleasesType == ASSUME NEW n \in Int PROVE Releases(n) \in Seq(Op)
<1>1. [op |-> "release"] \in Op
    BY DEF Op
<1>2. CASE n \in Nat
    BY <1>1, <1>2 DEF Releases
<1>3. CASE n < 0
    <2>1. 1 .. n = 1 .. 0
        BY <1>3
    <2> QED
        BY <1>1, <2>1 DEF Releases
<1> QED
    BY <1>2, <1>3

LEMMA AdvanceType ==
    ASSUME Types, NEW a \in Actors, todo[a] # <<>>, Advance(a) \/ Unwind(a) \/ Sleep(a)
    PROVE  todo' \in [Actors -> Seq(Op)] /\ stage' \in [Actors -> {"start", "wait"}]
<1>1. todo[a] \in Seq(Op) /\ Tail(todo[a]) \in Seq(Op)
    BY DEF Types
<1>2. Releases(Owed(todo[a], 1)) \in Seq(Op)
    BY <1>1, OwedType, ReleasesType
<1> QED
    BY <1>1, <1>2 DEF Types, Advance, Unwind, Sleep

LEMMA PoolInvInit == Init => PoolInv
<1> SUFFICES ASSUME Init PROVE PoolInv
    OBVIOUS
<1>1. todo \in [Actors -> Seq(Op)]
    <2>1. PICK p \in Programs : todo = [a \in Actors |-> IF a \in Clients THEN p[a] ELSE <<>>]
        BY DEF Init
    <2>2. p \in [Clients -> Seq(Op)]
        BY ThreadPoolAssumption
    <2> QED
        BY <2>1, <2>2
<1>2. Types
    <2>1. Hardware \in 1 .. MaxThreads /\ MaxThreads \in Nat
        BY ThreadPoolAssumption
    <2>2. tasks \in Seq(Tasks) /\ stage \in [Actors -> {"start", "wait"}]
        BY DEF Init
    <2>3. wpc \in [Workers -> {"none", "check", "notify", "run", "finish", "signal"}]
        BY DEF Init
    <2>6. alive \in BOOLEAN /\ stop \in BOOLEAN
        BY DEF Init
    <2>4. /\ pool_size \in 0 .. MaxThreads /\ workers \in 0 .. MaxThreads
          /\ threads \in 1 .. MaxThreads
        BY <2>1 DEF Init
    <2>5. consumers \subseteq Actors /\ ref_count \in Int /\ tp_mutex \in Actors \cup {Nobody}
        BY DEF Init
    <2> QED
        BY <1>1, <2>2, <2>3, <2>4, <2>5, <2>6 DEF Types
<1>3. MgrInv
    BY ThreadPoolAssumption DEF Init, MgrInv
<1>4. WorkersInv /\ WorkIsNoticed
    BY DEF Init, WorkersInv, WorkIsNoticed, Workers
<1> QED
    BY <1>2, <1>3, <1>4 DEF PoolInv

\* A step of an actor's program, other than the destruction of a manager, that
\* leaves the pool and its workers alone.
LEMMA ProgramsOnly ==
    ASSUME PoolInv, NEW a \in Actors, todo[a] # <<>>, Head(todo[a]).op # "release",
           Advance(a) \/ Unwind(a) \/ Sleep(a),
           UNCHANGED <<alive, stop, pool_size, workers, tasks, wpc, consumers, mgrVars>>
    PROVE  PoolInv'
<1>1. todo' \in [Actors -> Seq(Op)] /\ stage' \in [Actors -> {"start", "wait"}]
    BY AdvanceType DEF PoolInv
<1>2. Types'
    BY <1>1 DEF PoolInv, Types, mgrVars
<1>3. ASSUME NEW b \in Actors, todo'[b] # <<>>, Head(todo'[b]).op = "release", stage'[b] = "wait"
      PROVE  tp_mutex' = b
    <2>1. CASE b = a
        <3>1. stage'[a] = "start" \/ todo' = todo
            BY DEF Advance, Unwind, Sleep, PoolInv, Types
        <3> QED
            BY <1>3, <2>1, <3>1
    <2>2. CASE b # a
        <3>1. todo'[b] = todo[b] /\ stage'[b] = stage[b]
            BY <2>2 DEF Advance, Unwind, Sleep, PoolInv, Types
        <3> QED
            BY <1>3, <3>1 DEF PoolInv, MgrInv, mgrVars
    <2> QED
        BY <2>1, <2>2
<1>4. MgrInv'
    BY <1>3 DEF PoolInv, MgrInv, mgrVars
<1>5. WorkersInv' /\ WorkIsNoticed'
    BY DEF PoolInv, WorkersInv, WorkIsNoticed, Awake, mgrVars
<1> QED
    BY <1>2, <1>4, <1>5 DEF PoolInv

LEMMA PoolInvNext == PoolInv /\ [Next]_vars => PoolInv'
<1> SUFFICES ASSUME PoolInv, [Next]_vars PROVE PoolInv'
    OBVIOUS
<1>0. MaxThreads \in Nat /\ Hardware \in 1 .. MaxThreads /\ QueueLimit \in Nat \ {0}
      /\ Nobody \notin Actors /\ Body \in [Tasks -> Seq(Op)] /\ Clients \cap Workers = {}
    BY ThreadPoolAssumption
<1> USE <1>0 DEF PoolInv, Types, MgrInv, WorkersInv, WorkIsNoticed, poolVars, mgrVars,
                 Workers, Actors, Awake
<1>1. ASSUME NEW a \in Actors, Acquire(a) PROVE PoolInv'
    <2>0. todo' \in [Actors -> Seq(Op)] /\ stage' \in [Actors -> {"start", "wait"}]
        BY <1>1, AdvanceType DEF Acquire, At
    <2>1. Types'
        <3>1. alive' \in BOOLEAN /\ stop' \in BOOLEAN
            BY <1>1, Zenon DEF Acquire
        <3>6. ref_count' \in Int
            BY <1>1 DEF Acquire
        <3>2. /\ pool_size' \in 0 .. MaxThreads /\ workers' \in 0 .. MaxThreads
              /\ threads' \in 1 .. MaxThreads
            BY <1>1 DEF Acquire
        <3>3. wpc' \in [Workers -> {"none", "check", "notify", "run", "finish", "signal"}]
            BY <1>1 DEF Acquire
        <3>4. consumers' \subseteq Actors /\ tp_mutex' \in Actors \cup {Nobody}
            BY <1>1 DEF Acquire
        <3>5. tasks' \in Seq(Tasks)
            BY <1>1 DEF Acquire
        <3> QED
            BY <2>0, <3>1, <3>2, <3>3, <3>4, <3>5, <3>6
    <2>2. MgrInv'
        BY <1>1 DEF Acquire, At, Advance
    <2>3. WorkersInv'
        <3>1. consumers' = consumers /\ tp_mutex' = Nobody /\ tp_mutex = Nobody /\ tasks' = tasks
            BY <1>1 DEF Acquire
        <3>2. CASE ref_count = 0
            <4>1. ~alive /\ workers = 0
                BY <3>1, <3>2
            <4>2. consumers = {}
                BY <3>1, <4>1
            <4>3. /\ alive' = TRUE /\ stop' = FALSE /\ pool_size' = threads /\ workers' = threads
                  /\ wpc' = [v \in Workers |-> IF v < threads THEN "check" ELSE "none"]
                BY <1>1, <3>2 DEF Acquire
            <4> QED
                BY <3>1, <4>2, <4>3
        <3>3. CASE ref_count # 0
            BY <1>1, <3>1, <3>3 DEF Acquire
        <3> QED
            BY <3>2, <3>3
    <2>4. WorkIsNoticed'
        BY <1>1 DEF Acquire, At, Advance
    <2> QED
        BY <2>1, <2>2, <2>3, <2>4
<1>2. ASSUME NEW a \in Actors, Release(a) PROVE PoolInv'
    <2>0. todo' \in [Actors -> Seq(Op)] /\ stage' \in [Actors -> {"start", "wait"}]
        BY <1>2, AdvanceType DEF Release, At
    <2>1. Types'
        <3>1. alive' \in BOOLEAN /\ stop' \in BOOLEAN
            BY <1>2, Zenon DEF Release
        <3>6. ref_count' \in Int
            BY <1>2 DEF Release
        <3>2. /\ pool_size' \in 0 .. MaxThreads /\ workers' \in 0 .. MaxThreads
              /\ threads' \in 1 .. MaxThreads
            BY <1>2 DEF Release
        <3>3. wpc' \in [Workers -> {"none", "check", "notify", "run", "finish", "signal"}]
            BY <1>2 DEF Release
        <3>4. consumers' \subseteq Actors /\ tp_mutex' \in Actors \cup {Nobody}
            BY <1>2 DEF Release
        <3>5. tasks' \in Seq(Tasks)
            BY <1>2 DEF Release
        <3> QED
            BY <2>0, <3>1, <3>2, <3>3, <3>4, <3>5, <3>6
    <2>2. MgrInv'
        <3>1. /\ ref_count' = ref_count - 1 /\ ref_count \in Int /\ alive' = alive
              /\ tp_mutex = Nobody /\ stage[a] = "start"
            BY <1>2 DEF Release
        <3>2. CASE ref_count = 1
            <4>1. stop' = TRUE /\ tp_mutex' = a /\ todo' = todo /\ stage' = [stage EXCEPT ![a] = "wait"]
                BY <1>2, <3>2 DEF Release, Sleep
            <4> QED
                BY <3>1, <3>2, <4>1
        <3>3. CASE ref_count # 1
            <4>1. stop' = stop /\ tp_mutex' = tp_mutex /\ Advance(a)
                BY <1>2, <3>3 DEF Release
            <4> QED
                BY <3>1, <3>3, <4>1 DEF Advance
        <3> QED
            BY <3>2, <3>3
    <2>3. WorkersInv'
        <3>1. UNCHANGED <<alive, workers, tasks, wpc>>
            BY <1>2 DEF Release
        <3>2. CASE ref_count = 1
            <4>1. stop' = TRUE /\ consumers' = {a} /\ tp_mutex' = a
                BY <1>2, <3>2 DEF Release
            <4> QED
                BY <3>1, <4>1
        <3>3. CASE ref_count # 1
            <4>1. UNCHANGED <<stop, pool_size, consumers, tp_mutex>>
                BY <1>2, <3>3 DEF Release
            <4> QED
                BY <3>1, <4>1
        <3> QED
            BY <3>2, <3>3
    <2>4. WorkIsNoticed'
        BY <1>2 DEF Release, At, Advance, Sleep
    <2> QED
        BY <2>1, <2>2, <2>3, <2>4
<1>3. ASSUME NEW a \in Actors, Destroy(a) PROVE PoolInv'
    <2>1. Types'
        <3>1. todo' \in [Actors -> Seq(Op)] /\ stage' \in [Actors -> {"start", "wait"}]
            BY <1>3, AdvanceType DEF Destroy, At
        <3>2. alive' \in BOOLEAN
            BY <1>3, Zenon DEF Destroy
        <3>3. consumers' \subseteq Actors /\ tp_mutex' \in Actors \cup {Nobody}
            BY <1>3 DEF Destroy
        <3>4. UNCHANGED <<stop, pool_size, workers, tasks, wpc, ref_count, threads>>
            BY <1>3 DEF Destroy
        <3> QED
            BY <3>1, <3>2, <3>3, <3>4
    <2>a. /\ stage[a] = "wait" /\ todo[a] # <<>> /\ Head(todo[a]).op = "release"
          /\ UNCHANGED <<stop, pool_size, workers, tasks, wpc, ref_count>>
        BY <1>3, Zenon DEF Destroy, At
    <2>b. tp_mutex = a /\ alive /\ stop /\ ~(ref_count > 0)
        BY <2>a
    <2>2. MgrInv'
        <3>1. CASE workers = 0
            <4>1. alive' = FALSE /\ tp_mutex' = Nobody /\ Advance(a)
                BY <1>3, <3>1 DEF Destroy
            <4> QED
                BY <2>a, <2>b, <4>1 DEF Advance
        <3>2. CASE workers # 0
            <4>1. UNCHANGED <<alive, tp_mutex, todo, stage>>
                BY <1>3, <3>2 DEF Destroy
            <4> QED
                BY <2>a, <4>1
        <3> QED
            BY <3>1, <3>2
    <2>3. WorkersInv'
        <3>1. CASE workers = 0
            <4>1. alive' = FALSE /\ tp_mutex' = Nobody /\ consumers' = consumers
                BY <1>3, <3>1 DEF Destroy
            <4>2. \A b \in consumers : b \in Workers => wpc[b] = "none"
                BY <2>b, <3>1
            <4>3. consumers \subseteq {a}
                BY <2>b, <4>2
            <4>4. a \notin consumers
                BY <1>3 DEF Destroy, At, Awake
            <4> QED
                BY <2>a, <3>1, <4>1, <4>3, <4>4
        <3>2. CASE workers # 0
            <4>1. consumers' = consumers \cup {a} /\ UNCHANGED <<alive, tp_mutex, todo, stage>>
                BY <1>3, <3>2 DEF Destroy
            <4> QED
                BY <2>a, <2>b, <4>1
        <3> QED
            BY <3>1, <3>2
    <2>4. WorkIsNoticed'
        BY <1>3 DEF Destroy, At, Advance
    <2> QED
        BY <2>1, <2>2, <2>3, <2>4
<1>4. ASSUME NEW a \in Actors, SetThreadCount(a) PROVE PoolInv'
    <2>0. todo' \in [Actors -> Seq(Op)] /\ stage' \in [Actors -> {"start", "wait"}]
        BY <1>4, AdvanceType DEF SetThreadCount, At
    <2> DEFINE n == IF Head(todo[a]).n = 0 THEN Hardware ELSE Head(todo[a]).n
    <2>n. n \in 1 .. MaxThreads
        <3>1. Head(todo[a]) \in Op /\ Head(todo[a]).op = "set_thread_count"
            BY <1>4 DEF SetThreadCount, At
        <3>2. Head(todo[a]).n \in 0 .. MaxThreads
            BY <3>1 DEF Op
        <3> QED
            BY <3>2
    <2>1. Types'
        <3>1. alive' \in BOOLEAN /\ stop' \in BOOLEAN
            BY <1>4, Zenon DEF SetThreadCount
        <3>6. ref_count' \in Int
            BY <1>4 DEF SetThreadCount
        <3>2. /\ pool_size' \in 0 .. MaxThreads /\ workers' \in 0 .. MaxThreads
              /\ threads' \in 1 .. MaxThreads
            <4>1. threads' = n
                BY <1>4 DEF SetThreadCount
            <4>2. CASE alive /\ ~stop
                <5>1. pool_size' = n /\ workers' = IF n > workers THEN n ELSE workers
                    BY <1>4, <4>2 DEF SetThreadCount
                <5> HIDE DEF n
                <5> QED
                    BY <2>n, <4>1, <5>1
            <4>3. CASE ~(alive /\ ~stop)
                <5>1. pool_size' = pool_size /\ workers' = workers
                    BY <1>4, <4>3 DEF SetThreadCount
                <5> HIDE DEF n
                <5> QED
                    BY <2>n, <4>1, <5>1
            <4> QED
                BY <4>2, <4>3
        <3>3. wpc' \in [Workers -> {"none", "check", "notify", "run", "finish", "signal"}]
            BY <1>4 DEF SetThreadCount
        <3>4. consumers' \subseteq Actors /\ tp_mutex' \in Actors \cup {Nobody}
            BY <1>4 DEF SetThreadCount
        <3>5. tasks' \in Seq(Tasks)
            BY <1>4 DEF SetThreadCount
        <3> QED
            BY <2>0, <3>1, <3>2, <3>3, <3>4, <3>5, <3>6
    <2>2. MgrInv'
        BY <1>4 DEF SetThreadCount, At, Advance, Op
    <2>3. UNCHANGED <<alive, stop, tasks, tp_mutex>> /\ tp_mutex = Nobody
        BY <1>4 DEF SetThreadCount
    <2>4. CASE alive /\ ~stop
        <3>1. /\ pool_size' = n
              /\ workers' = IF n > workers THEN n ELSE workers
              /\ wpc' = [v \in Workers |-> IF v \in workers .. n - 1 THEN "check" ELSE wpc[v]]
              /\ consumers' = IF n < workers THEN {} ELSE consumers
            BY <1>4, <2>4 DEF SetThreadCount, n
        <3> HIDE DEF n
        <3>2. workers >= 1 /\ wpc[0] # "none"
            BY <2>4
        <3>3. WorkersInv'
            BY <2>n, <2>3, <2>4, <3>1, <3>2
        <3>4. \A v \in Workers : wpc[v] # "none" => wpc'[v] = wpc[v]
            BY <3>1
        <3>5. consumers' \subseteq consumers
            BY <3>1
        <3>6. WorkIsNoticed'
            <4>1. CASE tasks = <<>>
                BY <2>3, <4>1
            <4>2. CASE tasks # <<>>
                <5>1. PICK w \in Workers : wpc[w] # "none" /\ ~(wpc[w] = "check" /\ w \in consumers)
                    BY <4>2
                <5>2. wpc'[w] = wpc[w] /\ (w \in consumers' => w \in consumers)
                    BY <3>4, <3>5, <5>1
                <5> QED
                    BY <5>1, <5>2
            <4> QED
                BY <4>1, <4>2
        <3> QED
            BY <2>1, <2>2, <3>3, <3>6
    <2>5. CASE ~(alive /\ ~stop)
        <3>1. UNCHANGED <<pool_size, workers, wpc, consumers>>
            BY <1>4, <2>5 DEF SetThreadCount
        <3> QED
            BY <2>1, <2>2, <2>3, <2>5, <3>1
    <2> QED
        BY <2>4, <2>5
<1>5. ASSUME NEW a \in Actors, EnqueueWaits(a) PROVE PoolInv'
    <2>1. /\ todo[a] # <<>> /\ Head(todo[a]).op = "enqueue" /\ Sleep(a)
          /\ UNCHANGED <<alive, stop, pool_size, workers, tasks, wpc, consumers, mgrVars>>
        BY <1>5 DEF EnqueueWaits, At
    <2> QED
        BY <2>1, ProgramsOnly
<1>6. ASSUME NEW a \in Actors, Enqueue(a) PROVE PoolInv'
    <2>0. todo' \in [Actors -> Seq(Op)] /\ stage' \in [Actors -> {"start", "wait"}]
        BY <1>6, AdvanceType DEF Enqueue, At
    <2>k. Head(todo[a]).task \in Tasks
        <3>1. Head(todo[a]) \in Op /\ Head(todo[a]).op = "enqueue"
            BY <1>6 DEF Enqueue, At
        <3> QED
            BY <3>1 DEF Op
    <2>1. Types'
        BY <1>6, <2>k, <2>0 DEF Enqueue, NotifyOneConsumer
    <2>2. MgrInv'
        BY <1>6 DEF Enqueue, At, Advance, NotifyOneConsumer
    <2>3. WorkersInv'
        BY <1>6 DEF Enqueue, At, Advance, NotifyOneConsumer
    <2>4. WorkIsNoticed'
        <3>1. \A b \in consumers : b \in Workers /\ wpc[b] = "check"
            BY <1>6 DEF Enqueue
        <3>2. wpc' = wpc /\ 0 \in Workers /\ wpc[0] # "none"
            BY <1>6 DEF Enqueue
        <3>3. CASE consumers' = {}
            BY <3>2, <3>3
        <3>4. CASE \E v \in consumers : consumers' = consumers \ {v}
            BY <3>1, <3>2, <3>4
        <3> QED
            BY <1>6, <3>3, <3>4 DEF Enqueue, NotifyOneConsumer
    <2> QED
        BY <2>1, <2>2, <2>3, <2>4
<1>7. ASSUME NEW a \in Actors, Get(a) PROVE PoolInv'
    <2>1. /\ todo[a] # <<>> /\ Head(todo[a]).op = "get" /\ (Advance(a) \/ Unwind(a))
          /\ UNCHANGED <<alive, stop, pool_size, workers, tasks, wpc, consumers, mgrVars>>
        BY <1>7 DEF Get, At
    <2> QED
        BY <2>1, ProgramsOnly
<1>8. ASSUME NEW a \in Actors, SetQueueSizeLimit(a) PROVE PoolInv'
    <2>1. /\ todo[a] # <<>> /\ Head(todo[a]).op = "set_queue_size_limit" /\ Advance(a)
          /\ UNCHANGED <<alive, stop, pool_size, workers, tasks, wpc, consumers, mgrVars>>
        BY <1>8 DEF SetQueueSizeLimit, At
    <2> QED
        BY <2>1, ProgramsOnly
<1>9. ASSUME NEW a \in Actors, WaitUntilEmpty(a) PROVE PoolInv'
    <2>1. /\ todo[a] # <<>> /\ Head(todo[a]).op = "wait_until_empty" /\ (Advance(a) \/ Sleep(a))
          /\ UNCHANGED <<alive, stop, pool_size, workers, tasks, wpc, consumers, mgrVars>>
        BY <1>9 DEF WaitUntilEmpty, At
    <2> QED
        BY <2>1, ProgramsOnly
<1>18. ASSUME NEW a \in Actors, WaitUntilNothingInFlight(a) PROVE PoolInv'
    <2>1. /\ todo[a] # <<>> /\ Head(todo[a]).op = "wait_until_nothing_in_flight"
          /\ (Advance(a) \/ Sleep(a))
          /\ UNCHANGED <<alive, stop, pool_size, workers, tasks, wpc, consumers, mgrVars>>
        BY <1>18 DEF WaitUntilNothingInFlight, At
    <2> QED
        BY <2>1, ProgramsOnly
<1>10. ASSUME NEW a \in Actors, SpuriousWake(a) PROVE PoolInv'
    BY <1>10 DEF SpuriousWake
<1>11. ASSUME NEW w \in Workers, WorkerSleep(w) PROVE PoolInv'
    BY <1>11 DEF WorkerSleep, Ready
<1>12. ASSUME NEW w \in Workers, WorkerExit(w) PROVE PoolInv'
    BY <1>12 DEF WorkerExit, Ready, Surplus
<1>13. ASSUME NEW w \in Workers, WorkerTake(w) PROVE PoolInv'
    BY <1>13 DEF WorkerTake, Ready
<1>14. ASSUME NEW w \in Workers, WorkerNotify(w) PROVE PoolInv'
    BY <1>14 DEF WorkerNotify, Ready
<1>19. ASSUME NEW w \in Workers, WorkerSignal(w) PROVE PoolInv'
    BY <1>19 DEF WorkerSignal, Ready
<1>15. ASSUME NEW w \in Workers, TaskEnd(w) PROVE PoolInv'
    BY <1>15 DEF TaskEnd
<1>16. ASSUME NEW w \in Workers, WorkerDecrement(w) PROVE PoolInv'
    BY <1>16 DEF WorkerDecrement, Ready
<1>17. CASE Quiet \/ UNCHANGED vars
    <2>1. UNCHANGED vars
        BY <1>17 DEF Quiet
    <2>2. UNCHANGED <<alive, stop, pool_size, workers, tasks, wpc, consumers, todo, stage,
                      ref_count, tp_mutex, threads>>
        BY <2>1 DEF vars
    <2> QED
        BY <2>2
<1> QED
    BY <1>1, <1>2, <1>3, <1>4, <1>5, <1>6, <1>7, <1>8, <1>9, <1>10, <1>11, <1>12,
       <1>13, <1>14, <1>15, <1>16, <1>17,
       <1>18, <1>19 DEF Next, ActorStep, WorkerStep

\* While tasks are queued some worker is awake or busy, whatever the number of
\* threads and however the pool is resized (enqueue's notify_one, the worker
\* loop, set_pool_size: thread_pool.h:119-252).
THEOREM NoWakeUpIsLost == Spec => []WorkIsNoticed
<1>1. PoolInv => WorkIsNoticed
    BY DEF PoolInv
<1> QED
    BY PoolInvInit, PoolInvNext, <1>1, PTL DEF Spec
-----------------------------------------------------------------------------
(***************************************************************************)
(* The books of the pool: in_flight counts the tasks that wait or are with *)
(* a worker; a task that is queued is in the queue, and one that runs is   *)
(* with a worker that has not come to its end.                             *)
(***************************************************************************)
Holders == {w \in Workers : Holding(w)}
Runs(w) == wpc[w] \in {"notify", "run"}

CountInv == in_flight \in Int /\ in_flight = Len(tasks) + Cardinality(Holders)

LedgerInv ==
    /\ status \in [Tasks -> {"new", "queued", "running", "ok", "threw"}]
    /\ current = [w \in Workers |-> current[w]]
    /\ \A k \in Tasks : status[k] = "queued" => \E i \in DOMAIN tasks : tasks[i] = k
    /\ \A k \in Tasks : status[k] = "running" => \E w \in Workers : current[w] = k /\ Runs(w)

BooksInv == CountInv /\ LedgerInv

LEMMA HoldersFinite == IsFiniteSet(Holders) /\ Cardinality(Holders) \in Nat
<1>1. IsFiniteSet(Workers)
    BY FS_Interval, ThreadPoolAssumption DEF Workers
<1> QED
    BY <1>1, FS_Subset, FS_CardinalityType DEF Holders

LEMMA BooksInvInit == Init => BooksInv
<1> SUFFICES ASSUME Init PROVE BooksInv
    OBVIOUS
<1>1. Holders = {}
    BY DEF Init, Holders, Holding
<1>2. CountInv
    BY <1>1, FS_EmptySet DEF Init, CountInv
<1>3. LedgerInv
    BY DEF Init, LedgerInv
<1> QED
    BY <1>2, <1>3 DEF BooksInv

\* A step that neither enqueues nor takes nor ends a task.
LEMMA BooksStay ==
    ASSUME BooksInv, UNCHANGED <<in_flight, tasks, status, current>>,
           \A w \in Workers : (Holding(w)' <=> Holding(w)) /\ (Runs(w) => Runs(w)')
    PROVE  BooksInv'
<1>1. Holders' = Holders
    BY DEF Holders
<1>2. CountInv'
    BY <1>1 DEF BooksInv, CountInv
<1>3. LedgerInv'
    BY DEF BooksInv, LedgerInv
<1> QED
    BY <1>2, <1>3 DEF BooksInv

LEMMA EnqueueBooks ==
    ASSUME PoolInv, BooksInv, NEW a \in Actors, Enqueue(a)
    PROVE  BooksInv'
<1> DEFINE k == Head(todo[a]).task
<1>1. k \in Tasks
    <2>1. todo[a] \in Seq(Op) /\ todo[a] # <<>> /\ Head(todo[a]).op = "enqueue"
        BY DEF Enqueue, At, PoolInv, Types
    <2>2. Head(todo[a]) \in Op
        BY <2>1
    <2> QED
        BY <2>1, <2>2 DEF Op
<1>2. /\ tasks' = Append(tasks, k) /\ in_flight' = in_flight + 1
      /\ status' = [status EXCEPT ![k] = "queued"] /\ UNCHANGED <<wpc, current>>
      /\ tasks \in Seq(Tasks)
    BY DEF Enqueue, PoolInv, Types
<1> HIDE DEF k
<1>3. Holders' = Holders
    BY <1>2 DEF Holders, Holding
<1>4. Len(tasks') = Len(tasks) + 1 /\ Len(tasks) \in Nat
    BY <1>1, <1>2
<1>5. CountInv'
    BY <1>2, <1>3, <1>4, HoldersFinite DEF BooksInv, CountInv
<1>6. /\ \A i \in DOMAIN tasks : i \in DOMAIN tasks' /\ tasks'[i] = tasks[i]
      /\ Len(tasks) + 1 \in DOMAIN tasks' /\ tasks'[Len(tasks) + 1] = k
    BY <1>1, <1>2
<1>7. LedgerInv'
    <2>1. \A x \in Tasks : status'[x] = "queued" => \E i \in DOMAIN tasks' : tasks'[i] = x
        BY <1>2, <1>6 DEF BooksInv, LedgerInv
    <2>2. \A x \in Tasks : status'[x] = "running" => status[x] = "running"
        BY <1>2 DEF BooksInv, LedgerInv
    <2>3. status' \in [Tasks -> {"new", "queued", "running", "ok", "threw"}]
        BY <1>2 DEF BooksInv, LedgerInv
    <2> QED
        BY <1>2, <2>1, <2>2, <2>3 DEF BooksInv, LedgerInv, Runs
<1> QED
    BY <1>5, <1>7 DEF BooksInv

LEMMA WorkerTakeBooks ==
    ASSUME PoolInv, BooksInv, NEW w \in Workers, WorkerTake(w)
    PROVE  BooksInv'
<1> DEFINE k == Head(tasks)
<1>1. tasks \in Seq(Tasks) /\ tasks # <<>> /\ wpc[w] = "check"
      /\ wpc \in [Workers -> {"none", "check", "notify", "run", "finish", "signal"}]
    BY DEF WorkerTake, Ready, PoolInv, Types
<1>2. /\ k \in Tasks /\ Len(tasks) \in Nat /\ Len(Tail(tasks)) = Len(tasks) - 1
      /\ \A i \in DOMAIN tasks : tasks[i] = k \/ \E j \in DOMAIN Tail(tasks) : Tail(tasks)[j] = tasks[i]
    <2>1. \A i \in DOMAIN tasks : i # 1 => i - 1 \in DOMAIN Tail(tasks) /\ Tail(tasks)[i - 1] = tasks[i]
        BY <1>1
    <2>2. k = tasks[1] /\ k \in Tasks /\ Len(tasks) \in Nat /\ Len(Tail(tasks)) = Len(tasks) - 1
        BY <1>1
    <2> HIDE DEF k
    <2>3. ASSUME NEW i \in DOMAIN tasks
          PROVE  tasks[i] = k \/ \E j \in DOMAIN Tail(tasks) : Tail(tasks)[j] = tasks[i]
        <3>1. CASE i = 1
            BY <2>2, <3>1
        <3>2. CASE i # 1
            <4>1. i - 1 \in DOMAIN Tail(tasks) /\ Tail(tasks)[i - 1] = tasks[i]
                BY <2>1, <3>2
            <4> QED
                BY <4>1, Zenon
        <3> QED
            BY <3>1, <3>2
    <2> QED
        BY <2>2, <2>3
<1>3. /\ tasks' = Tail(tasks) /\ UNCHANGED in_flight
      /\ current' = [current EXCEPT ![w] = k] /\ status' = [status EXCEPT ![k] = "running"]
      /\ wpc' = [wpc EXCEPT ![w] = wpc'[w]] /\ wpc'[w] \in {"notify", "run"}
    BY <1>1 DEF WorkerTake
<1> HIDE DEF k
<1>4. Holders' = Holders \cup {w} /\ w \notin Holders
    BY <1>1, <1>3 DEF Holders, Holding
<1>5. Cardinality(Holders') = Cardinality(Holders) + 1
    BY <1>4, HoldersFinite, FS_AddElement
<1>6. CountInv'
    <2>1. Len(tasks') = Len(tasks) - 1 /\ Len(tasks) \in Nat /\ in_flight' = in_flight
        BY <1>2, <1>3
    <2>2. in_flight = Len(tasks) + Cardinality(Holders) /\ in_flight \in Int
        BY DEF BooksInv, CountInv
    <2>3. Len(tasks') + Cardinality(Holders') = in_flight
        BY <1>5, <2>1, <2>2, HoldersFinite
    <2> QED
        BY <2>1, <2>2, <2>3 DEF CountInv
<1>7. \A x \in Tasks : status'[x] = "queued" => \E i \in DOMAIN tasks' : tasks'[i] = x
    BY <1>2, <1>3 DEF BooksInv, LedgerInv
<1>8. \A x \in Tasks : status'[x] = "running" =>
                           \E v \in Workers : current'[v] = x /\ Runs(v)'
    <2> SUFFICES ASSUME NEW x \in Tasks, status'[x] = "running"
                 PROVE  \E v \in Workers : current'[v] = x /\ Runs(v)'
        OBVIOUS
    <2>1. CASE x = k
        BY <1>3, <2>1 DEF BooksInv, LedgerInv, Runs
    <2>2. CASE x # k
        <3>1. status[x] = "running"
            BY <1>3, <2>2 DEF BooksInv, LedgerInv
        <3>2. PICK v \in Workers : current[v] = x /\ Runs(v)
            BY <3>1 DEF BooksInv, LedgerInv
        <3>3. v # w
            BY <1>1, <3>2 DEF Runs
        <3> QED
            BY <1>1, <1>3, <3>2, <3>3 DEF BooksInv, LedgerInv, Runs
    <2> QED
        BY <2>1, <2>2
<1>9. /\ status' \in [Tasks -> {"new", "queued", "running", "ok", "threw"}]
      /\ current' = [v \in Workers |-> current'[v]]
    BY <1>3 DEF BooksInv, LedgerInv
<1> QED
    BY <1>6, <1>7, <1>8, <1>9 DEF BooksInv, LedgerInv

LEMMA TaskEndBooks ==
    ASSUME PoolInv, BooksInv, NEW w \in Workers, TaskEnd(w)
    PROVE  BooksInv'
<1>1. /\ wpc[w] = "run" /\ wpc' = [wpc EXCEPT ![w] = "finish"]
      /\ wpc \in [Workers -> {"none", "check", "notify", "run", "finish", "signal"}]
      /\ UNCHANGED <<tasks, in_flight, current>>
    BY DEF TaskEnd, PoolInv, Types
<1>2. PICK s \in {"ok", "threw"} : status' = [status EXCEPT ![current[w]] = s]
    BY DEF TaskEnd
<1>3. Holders' = Holders
    BY <1>1 DEF Holders, Holding
<1>4. CountInv'
    BY <1>1, <1>3 DEF BooksInv, CountInv
<1>5. \A x \in Tasks : status'[x] \in {"queued", "running"} =>
                           x # current[w] /\ status'[x] = status[x]
    BY <1>2 DEF BooksInv, LedgerInv
<1>6. \A v \in Workers : v # w /\ Runs(v) => Runs(v)'
    BY <1>1 DEF Runs
<1>7. status' \in [Tasks -> {"new", "queued", "running", "ok", "threw"}]
    BY <1>2 DEF BooksInv, LedgerInv
<1>8. LedgerInv'
    BY <1>1, <1>5, <1>6, <1>7 DEF BooksInv, LedgerInv
<1> QED
    BY <1>4, <1>8 DEF BooksInv

LEMMA WorkerDecrementBooks ==
    ASSUME PoolInv, BooksInv, NEW w \in Workers, WorkerDecrement(w)
    PROVE  BooksInv'
<1>1. /\ wpc[w] = "finish" /\ in_flight' = in_flight - 1 /\ UNCHANGED <<tasks, status, current>>
      /\ wpc \in [Workers -> {"none", "check", "notify", "run", "finish", "signal"}]
      /\ tasks \in Seq(Tasks)
    BY DEF WorkerDecrement, Ready, PoolInv, Types
<1>2. wpc' = [wpc EXCEPT ![w] = wpc'[w]] /\ wpc'[w] \in {"signal", "check"}
    BY <1>1 DEF WorkerDecrement
<1>3. Holders' = Holders \ {w} /\ w \in Holders
    BY <1>1, <1>2 DEF Holders, Holding
<1>4. Cardinality(Holders') = Cardinality(Holders) - 1
    BY <1>3, HoldersFinite, FS_RemoveElement
<1>5. CountInv'
    BY <1>1, <1>4, HoldersFinite DEF BooksInv, CountInv
<1>6. \A v \in Workers : Runs(v) => Runs(v)'
    BY <1>1, <1>2 DEF Runs
<1>7. LedgerInv'
    BY <1>1, <1>6 DEF BooksInv, LedgerInv
<1> QED
    BY <1>5, <1>7 DEF BooksInv

LEMMA BooksInvNext == PoolInv /\ BooksInv /\ [Next]_vars => BooksInv'
<1> SUFFICES ASSUME PoolInv, BooksInv, [Next]_vars PROVE BooksInv'
    OBVIOUS
<1>0. wpc \in [Workers -> {"none", "check", "notify", "run", "finish", "signal"}]
      /\ workers \in 0 .. MaxThreads /\ MaxThreads \in Nat
    BY ThreadPoolAssumption DEF PoolInv, Types
<1>1. ASSUME NEW a \in Actors, Acquire(a) PROVE BooksInv'
    <2>1. UNCHANGED <<in_flight, tasks, status, current>>
        BY <1>1 DEF Acquire
    <2>2. CASE ref_count = 0
        <3>1. \A w \in Workers : wpc[w] = "none"
            BY <1>1, <2>2 DEF Acquire, PoolInv, MgrInv, WorkersInv, Workers
        <3>2. \A w \in Workers : wpc'[w] \in {"check", "none"}
            BY <1>1, <2>2 DEF Acquire
        <3> QED
            BY <2>1, <3>1, <3>2, BooksStay DEF Holding, Runs
    <2>3. CASE ref_count # 0
        BY <1>1, <2>1, <2>3, BooksStay DEF Acquire, Holding, Runs
    <2> QED
        BY <2>2, <2>3
<1>2. ASSUME NEW a \in Actors, SetThreadCount(a) PROVE BooksInv'
    <2>1. UNCHANGED <<in_flight, tasks, status, current>>
        BY <1>2 DEF SetThreadCount
    <2>2. \A w \in Workers : wpc'[w] = wpc[w] \/ (wpc[w] = "none" /\ wpc'[w] = "check")
        BY <1>0, <1>2 DEF SetThreadCount, PoolInv, WorkersInv, Workers
    <2> QED
        BY <2>1, <2>2, BooksStay DEF Holding, Runs
<1>3. ASSUME NEW a \in Actors, Enqueue(a) PROVE BooksInv'
    BY <1>3, EnqueueBooks
<1>4. ASSUME NEW a \in Actors,
             \/ Release(a) \/ Destroy(a) \/ EnqueueWaits(a) \/ Get(a) \/ SetQueueSizeLimit(a)
             \/ WaitUntilEmpty(a) \/ WaitUntilNothingInFlight(a) \/ SpuriousWake(a)
      PROVE  BooksInv'
    <2>1. UNCHANGED <<in_flight, tasks, status, current, wpc>>
        BY <1>4 DEF Release, Destroy, EnqueueWaits, Get, SetQueueSizeLimit, WaitUntilEmpty,
                    WaitUntilNothingInFlight, SpuriousWake
    <2> QED
        BY <2>1, BooksStay DEF Holding, Runs
<1>5. ASSUME NEW w \in Workers, WorkerSleep(w) \/ WorkerExit(w) \/ WorkerNotify(w) \/ WorkerSignal(w)
      PROVE  BooksInv'
    <2>1. UNCHANGED <<in_flight, tasks, status, current>>
        BY <1>5 DEF WorkerSleep, WorkerExit, WorkerNotify, WorkerSignal
    <2>2. \A v \in Workers : wpc'[v] = wpc[v] \/ (wpc[v] = "notify" /\ wpc'[v] = "run")
                             \/ (wpc[v] \in {"check", "signal"} /\ wpc'[v] \in {"none", "check"})
        BY <1>0, <1>5 DEF WorkerSleep, WorkerExit, WorkerNotify, WorkerSignal, Ready
    <2> QED
        BY <2>1, <2>2, BooksStay DEF Holding, Runs
<1>6. ASSUME NEW w \in Workers, WorkerTake(w) PROVE BooksInv'
    BY <1>6, WorkerTakeBooks
<1>7. ASSUME NEW w \in Workers, TaskEnd(w) PROVE BooksInv'
    BY <1>7, TaskEndBooks
<1>8. ASSUME NEW w \in Workers, WorkerDecrement(w) PROVE BooksInv'
    BY <1>8, WorkerDecrementBooks
<1>9. CASE Quiet \/ UNCHANGED vars
    BY <1>9, BooksStay DEF Quiet, vars, Holding, Runs
<1> QED
    BY <1>1, <1>2, <1>3, <1>4, <1>5, <1>6, <1>7, <1>8, <1>9 DEF Next, ActorStep, WorkerStep

\* A pool that does not live holds nothing.
LEMMA NothingLeft ==
    ASSUME PoolInv, BooksInv, workers = 0
    PROVE  /\ tasks = <<>> /\ in_flight = 0 /\ \A w \in Workers : wpc[w] = "none"
           /\ \A k \in Tasks : status[k] \in {"new", "ok", "threw"}
<1>1. tasks = <<>> /\ \A w \in Workers : wpc[w] = "none"
    BY DEF PoolInv, WorkersInv, Workers
<1>2. Holders = {}
    BY <1>1 DEF Holders, Holding
<1>3. in_flight = 0
    BY <1>1, <1>2, FS_EmptySet DEF BooksInv, CountInv
<1>4. \A k \in Tasks : status[k] # "queued" /\ status[k] # "running"
    BY <1>1 DEF BooksInv, LedgerInv, Runs
<1> QED
    BY <1>1, <1>3, <1>4 DEF BooksInv, LedgerInv

\* in_flight counts the accepted tasks that have not ended, also when they
\* throw, so that ~ThreadPool may assert that it is zero (thread_pool.h:163)
\* and wait_until_nothing_in_flight is neither early nor stuck.
THEOREM TasksInFlightAreCounted == Spec => []InFlightIsExact
<1>1. PoolInv /\ BooksInv => InFlightIsExact
    <2> SUFFICES ASSUME PoolInv, BooksInv PROVE InFlightIsExact
        OBVIOUS
    <2>1. CASE alive
        BY <2>1 DEF BooksInv, CountInv, Holders, InFlightIsExact
    <2>2. CASE ~alive
        BY <2>2, NothingLeft DEF PoolInv, WorkersInv, InFlightIsExact
    <2> QED
        BY <2>1, <2>2
<1> QED
    BY <1>1, PoolInvInit, PoolInvNext, BooksInvInit, BooksInvNext, PTL DEF Spec

\* ~ThreadPool returns only when every task that was ever accepted has run.
THEOREM NothingIsDropped == Spec => ShutdownRunsEverything
<1>1. PoolInv /\ BooksInv /\ [Next]_vars =>
          [alive /\ ~alive' => \A k \in Tasks : status[k] \in {"new", "ok", "threw"}]_vars
    <2> SUFFICES ASSUME PoolInv, BooksInv, Next, alive, ~alive'
                 PROVE  \A k \in Tasks : status[k] \in {"new", "ok", "threw"}
        OBVIOUS
    <2>1. \E a \in Actors : Destroy(a)
        BY DEF Next, ActorStep, WorkerStep, Acquire, Release, SetThreadCount, EnqueueWaits, Enqueue,
               Get, SetQueueSizeLimit, WaitUntilEmpty, WaitUntilNothingInFlight, SpuriousWake,
               WorkerSleep, WorkerExit, WorkerTake, WorkerNotify, TaskEnd, WorkerDecrement,
               WorkerSignal, Quiet, vars, poolVars
    <2>2. workers = 0
        BY <2>1 DEF Destroy
    <2> QED
        BY <2>2, NothingLeft
<1> QED
    BY <1>1, PoolInvInit, PoolInvNext, BooksInvInit, BooksInvNext, PTL DEF Spec, ShutdownRunsEverything
-----------------------------------------------------------------------------
(***************************************************************************)
(* The managers: ref_count counts the managers that the actors hold, each  *)
(* of which the operations still to come, or an exception, let go once.    *)
(***************************************************************************)
LEMMA CountFromHead ==
    ASSUME NEW ops \in Seq(Op), ops # <<>>, NEW op
    PROVE  CountFrom(ops, op, 1) = CountFrom(ops, op, 2) + IF Head(ops).op = op THEN 1 ELSE 0
<1> DEFINE one == {m \in 1 .. Len(ops) : ops[m].op = op}
           two == {m \in 2 .. Len(ops) : ops[m].op = op}
<1>1. IsFiniteSet(two) /\ CountFrom(ops, op, 2) \in Nat /\ Cardinality(two) \in Nat
    <2>1. 2 \in Nat
        OBVIOUS
    <2> QED
        BY <2>1, CountFromType, Zenon DEF CountFrom
<1>2. Len(ops) \in Nat \ {0} /\ Head(ops) = ops[1]
    OBVIOUS
<1>3. CASE Head(ops).op = op
    <2>1. one = two \cup {1} /\ 1 \notin two
        BY <1>2, <1>3
    <2>2. Cardinality(one) = Cardinality(two) + 1
        BY <1>1, <2>1, FS_AddElement
    <2>3. CountFrom(ops, op, 1) = Cardinality(one) /\ CountFrom(ops, op, 2) = Cardinality(two)
        BY DEF CountFrom
    <2> HIDE DEF one, two
    <2> QED
        BY <1>3, <2>2, <2>3
<1>4. CASE Head(ops).op # op
    <2>1. one = two
        BY <1>2, <1>4
    <2>2. CountFrom(ops, op, 1) = Cardinality(one) /\ CountFrom(ops, op, 2) = Cardinality(two)
        BY DEF CountFrom
    <2> HIDE DEF one, two
    <2> QED
        BY <1>1, <1>4, <2>1, <2>2
<1> QED
    BY <1>3, <1>4

LEMMA CountFromTail ==
    ASSUME NEW ops \in Seq(Op), ops # <<>>, NEW op, NEW n \in Nat \ {0}
    PROVE  CountFrom(Tail(ops), op, n) = CountFrom(ops, op, n + 1)
<1> DEFINE short == {m \in n .. Len(Tail(ops)) : Tail(ops)[m].op = op}
           long  == {m \in n + 1 .. Len(ops) : ops[m].op = op}
           f == [m \in short |-> m + 1]
<1>1. Len(ops) \in Nat \ {0} /\ Len(Tail(ops)) = Len(ops) - 1
    OBVIOUS
<1>2. \A m \in 1 .. Len(ops) - 1 : Tail(ops)[m] = ops[m + 1]
    OBVIOUS
<1>3. \A m \in short : m \in Nat /\ m + 1 \in long
    BY <1>1, <1>2
<1>4. \A m \in long : m \in Nat /\ m - 1 \in short
    BY <1>1, <1>2
<1> HIDE DEF short, long
<1>5. f \in Bijection(short, long)
    <2>1. f \in [short -> long]
        BY <1>3
    <2>2. \A i, j \in short : f[i] = f[j] => i = j
        BY <1>3
    <2>3. \A m \in long : \E i \in short : f[i] = m
        <3> SUFFICES ASSUME NEW m \in long PROVE \E i \in short : f[i] = m
            OBVIOUS
        <3>1. m - 1 \in short /\ f[m - 1] = m
            BY <1>4
        <3> QED
            BY <3>1, Zenon
    <2> HIDE DEF f
    <2> QED
        BY <2>1, <2>2, <2>3 DEF Bijection, Injection, IsInjective, Surjection
<1>6. IsFiniteSet(short) /\ ExistsBijection(short, long)
    <2>1. IsFiniteSet(short)
        <3>1. IsFiniteSet(n .. Len(Tail(ops)))
            BY <1>1, FS_Interval
        <3> QED
            BY <3>1, FS_Subset DEF short
    <2> QED
        BY <1>5, <2>1, Zenon DEF ExistsBijection
<1>7. Cardinality(short) = Cardinality(long)
    BY <1>6, FS_Bijection
<1> QED
    BY <1>7 DEF CountFrom, short, long

LEMMA OwedTail ==
    ASSUME NEW ops \in Seq(Op), ops # <<>>, NEW n \in Nat \ {0}
    PROVE  Owed(Tail(ops), n) = Owed(ops, n + 1)
BY CountFromTail, Zenon DEF Owed

LEMMA OwedHead ==
    ASSUME NEW ops \in Seq(Op), ops # <<>>
    PROVE  /\ Owed(ops, 1) \in Int /\ Owed(Tail(ops), 1) \in Int
           /\ Head(ops).op = "acquire" => Owed(Tail(ops), 1) = Owed(ops, 1) + 1
           /\ Head(ops).op = "release" => Owed(Tail(ops), 1) = Owed(ops, 1) - 1
           /\ Head(ops).op \notin {"acquire", "release"} => Owed(Tail(ops), 1) = Owed(ops, 1)
<1>1. Owed(Tail(ops), 1) = Owed(ops, 2)
    <2>1. 1 \in Nat \ {0} /\ 1 + 1 = 2
        OBVIOUS
    <2> QED
        BY <2>1, OwedTail, Zenon
<1>2. /\ CountFrom(ops, "release", 2) \in Nat /\ CountFrom(ops, "acquire", 2) \in Nat
      /\ CountFrom(ops, "release", 1) \in Nat /\ CountFrom(ops, "acquire", 1) \in Nat
    <2>1. 1 \in Nat /\ 2 \in Nat
        OBVIOUS
    <2> QED
        BY <2>1, CountFromType, Zenon
<1>3. /\ CountFrom(ops, "release", 1)
            = CountFrom(ops, "release", 2) + IF Head(ops).op = "release" THEN 1 ELSE 0
      /\ CountFrom(ops, "acquire", 1)
            = CountFrom(ops, "acquire", 2) + IF Head(ops).op = "acquire" THEN 1 ELSE 0
    BY CountFromHead, Zenon
<1>4. Owed(ops, 1) = CountFrom(ops, "release", 1) - CountFrom(ops, "acquire", 1)
    BY Zenon DEF Owed
<1>5. Owed(Tail(ops), 1) = CountFrom(ops, "release", 2) - CountFrom(ops, "acquire", 2)
    BY <1>1, Zenon DEF Owed
<1> DEFINE r1 == CountFrom(ops, "release", 1)
           r2 == CountFrom(ops, "release", 2)
           a1 == CountFrom(ops, "acquire", 1)
           a2 == CountFrom(ops, "acquire", 2)
           h == Head(ops).op
<1>6. r1 \in Nat /\ r2 \in Nat /\ a1 \in Nat /\ a2 \in Nat
    BY <1>2
<1>7. /\ r1 = r2 + IF h = "release" THEN 1 ELSE 0
      /\ a1 = a2 + IF h = "acquire" THEN 1 ELSE 0
    BY <1>3, Zenon
<1>8. Owed(ops, 1) = r1 - a1 /\ Owed(Tail(ops), 1) = r2 - a2
    BY <1>4, <1>5, Zenon
<1> HIDE DEF r1, r2, a1, a2, h
<1>9. /\ r1 - a1 \in Int /\ r2 - a2 \in Int
      /\ h = "acquire" => r2 - a2 = r1 - a1 + 1
      /\ h = "release" => r2 - a2 = r1 - a1 - 1
      /\ h \notin {"acquire", "release"} => r2 - a2 = r1 - a1
    BY <1>6, <1>7
<1> QED
    BY <1>8, <1>9, Zenon DEF h

LEMMA OwedNothing == Owed(<<>>, 1) = 0
<1>1. {m \in 1 .. Len(<<>>) : <<>>[m].op = "release"} = {}
      /\ {m \in 1 .. Len(<<>>) : <<>>[m].op = "acquire"} = {}
    OBVIOUS
<1> QED
    BY <1>1, FS_EmptySet DEF Owed, CountFrom

LEMMA OwedReleases ==
    ASSUME NEW n \in Nat
    PROVE  /\ Owed(Releases(n), 1) = n /\ Len(Releases(n)) = n
           /\ \A m \in 1 .. n : Owed(Releases(n), m) >= 0 /\ Releases(n)[m].op = "release"
<1>1. Len(Releases(n)) = n /\ \A m \in 1 .. n : Releases(n)[m].op = "release"
    BY DEF Releases
<1>2. ASSUME NEW m \in Nat \ {0} PROVE Owed(Releases(n), m) = IF m > n THEN 0 ELSE n - m + 1
    <2>1. {j \in m .. n : Releases(n)[j].op = "release"} = m .. n
        BY <1>1
    <2>2. {j \in m .. n : Releases(n)[j].op = "acquire"} = {}
        BY <1>1
    <2>3. Cardinality(m .. n) = IF m > n THEN 0 ELSE n - m + 1
        BY FS_Interval
    <2>4. CountFrom(Releases(n), "release", m) = Cardinality(m .. n)
        BY <1>1, <2>1 DEF CountFrom
    <2>5. CountFrom(Releases(n), "acquire", m) = 0
        BY <1>1, <2>2, FS_EmptySet DEF CountFrom
    <2> QED
        BY <2>3, <2>4, <2>5 DEF Owed
<1> QED
    BY <1>1, <1>2

\* What is still to be done lets go of no manager that is not there, and uses
\* the pool while there is one.
OpsScoped(ops) ==
    \A n \in 1 .. Len(ops) : Owed(ops, n) >= IF ops[n].op \in PoolOps THEN 1 ELSE 0

Held == {h \in Actors \X (Nat \ {0}) : h[2] <= Managers(h[1])}

ScopeInv ==
    /\ \A a \in Actors : OpsScoped(todo[a])
    /\ \A w \in Workers : wpc[w] \notin {"notify", "run"} => todo[w] = <<>>

RefInv == IsFiniteSet(Held) /\ ref_count = Cardinality(Held)

LEMMA ScopedTail ==
    ASSUME NEW ops \in Seq(Op), ops # <<>>, OpsScoped(ops)
    PROVE  OpsScoped(Tail(ops))
<1> SUFFICES ASSUME NEW n \in 1 .. Len(Tail(ops))
             PROVE  Owed(Tail(ops), n) >= IF Tail(ops)[n].op \in PoolOps THEN 1 ELSE 0
    BY DEF OpsScoped
<1>1. n \in Nat \ {0} /\ n + 1 \in 1 .. Len(ops) /\ Tail(ops)[n] = ops[n + 1]
    OBVIOUS
<1>2. Owed(Tail(ops), n) = Owed(ops, n + 1)
    BY <1>1, OwedTail
<1>3. Owed(ops, n + 1) >= IF ops[n + 1].op \in PoolOps THEN 1 ELSE 0
    BY <1>1, Zenon DEF OpsScoped
<1> QED
    BY <1>1, <1>2, <1>3

LEMMA OwedIsNat ==
    ASSUME NEW ops \in Seq(Op), OpsScoped(ops)
    PROVE  /\ Owed(ops, 1) \in Nat
           /\ ops # <<>> /\ Head(ops).op \in PoolOps => Owed(ops, 1) >= 1
<1>1. CASE ops = <<>>
    BY <1>1, OwedNothing
<1>2. CASE ops # <<>>
    <2>1. 1 \in 1 .. Len(ops) /\ Head(ops) = ops[1] /\ Owed(ops, 1) \in Int
        BY <1>2, OwedHead
    <2> QED
        BY <2>1 DEF OpsScoped
<1> QED
    BY <1>1, <1>2

LEMMA HeldStays ==
    ASSUME RefInv, \A a \in Actors : Managers(a)' = Managers(a), UNCHANGED ref_count
    PROVE  RefInv'
<1>1. Actors' = Actors /\ Held' = Held
    BY DEF Held, Actors, Workers
<1> QED
    BY <1>1 DEF RefInv

LEMMA HeldGrows ==
    ASSUME RefInv, NEW a \in Actors, Managers(a) \in Nat, Managers(a)' = Managers(a) + 1,
           \A x \in Actors \ {a} : Managers(x)' = Managers(x), ref_count' = ref_count + 1
    PROVE  RefInv'
<1>1. Held' = Held \cup {<<a, Managers(a) + 1>>} /\ <<a, Managers(a) + 1>> \notin Held
    BY DEF Held, Actors, Workers
<1>2. IsFiniteSet(Held') /\ Cardinality(Held') = Cardinality(Held) + 1
    BY <1>1, FS_AddElement DEF RefInv
<1> QED
    BY <1>2 DEF RefInv

LEMMA HeldShrinks ==
    ASSUME RefInv, NEW a \in Actors, Managers(a) \in Nat \ {0}, Managers(a)' = Managers(a) - 1,
           \A x \in Actors \ {a} : Managers(x)' = Managers(x), ref_count' = ref_count - 1
    PROVE  RefInv'
<1>1. Held' = Held \ {<<a, Managers(a)>>} /\ <<a, Managers(a)>> \in Held
    BY DEF Held, Actors, Workers
<1>2. IsFiniteSet(Held') /\ Cardinality(Held') = Cardinality(Held) - 1
    BY <1>1, FS_RemoveElement DEF RefInv
<1> QED
    BY <1>2 DEF RefInv

\* An operation of the actor that takes and lets go of no manager.
LEMMA OtherOperations ==
    ASSUME Types, ScopeInv, NEW a \in Actors, todo[a] # <<>>,
           Head(todo[a]).op \notin {"acquire", "release"}, Advance(a) \/ Unwind(a) \/ Sleep(a)
    PROVE  /\ \A x \in Actors : OpsScoped(todo'[x])
           /\ \A x \in Actors : Managers(x)' = Managers(x)
<1>1. /\ todo \in [Actors -> Seq(Op)] /\ stage \in [Actors -> {"start", "wait"}]
      /\ todo[a] \in Seq(Op) /\ OpsScoped(todo[a])
    BY DEF Types, ScopeInv
<1>2. \A x \in Actors \ {a} : todo'[x] = todo[x] /\ stage'[x] = stage[x]
    BY <1>1 DEF Advance, Unwind, Sleep
<1>3. \A x \in Actors \ {a} : OpsScoped(todo'[x]) /\ Managers(x)' = Managers(x)
    BY <1>2 DEF ScopeInv, Managers, Leaving
<1>4. Managers(a) = Owed(todo[a], 1) /\ Owed(todo[a], 1) \in Nat
    BY <1>1, OwedIsNat DEF Managers, Leaving
<1>5. CASE Advance(a)
    <2>1. todo'[a] = Tail(todo[a]) /\ stage'[a] = "start"
        BY <1>1, <1>5 DEF Advance
    <2>2. OpsScoped(todo'[a])
        BY <1>1, <2>1, ScopedTail
    <2>3. Owed(todo'[a], 1) = Owed(todo[a], 1) /\ Owed(todo'[a], 1) \in Int
        BY <1>1, <2>1, OwedHead
    <2>4. Managers(a)' = Managers(a)
        BY <1>4, <2>1, <2>3 DEF Managers, Leaving
    <2> QED
        BY <1>3, <2>2, <2>4
<1>6. CASE Unwind(a)
    <2>1. todo'[a] = Releases(Owed(todo[a], 1)) /\ stage'[a] = "start"
        BY <1>1, <1>6 DEF Unwind
    <2>2. Owed(todo'[a], 1) = Owed(todo[a], 1)
        BY <1>4, <2>1, OwedReleases
    <2>3. OpsScoped(todo'[a])
        BY <1>4, <2>1, OwedReleases DEF OpsScoped, PoolOps
    <2>4. Managers(a)' = Managers(a)
        BY <1>4, <2>1, <2>2 DEF Managers, Leaving
    <2> QED
        BY <1>3, <2>3, <2>4
<1>7. CASE Sleep(a)
    <2>1. todo'[a] = todo[a]
        BY <1>7 DEF Sleep
    <2>2. Managers(a)' = Managers(a)
        BY <1>4, <2>1 DEF Managers, Leaving
    <2> QED
        BY <1>1, <1>3, <2>1, <2>2
<1> QED
    BY <1>5, <1>6, <1>7

LEMMA RefInvInit == Init => ScopeInv /\ RefInv
<1> SUFFICES ASSUME Init PROVE ScopeInv /\ RefInv
    OBVIOUS
<1>1. PICK p \in Programs : todo = [a \in Actors |-> IF a \in Clients THEN p[a] ELSE <<>>]
    BY DEF Init
<1>2. ASSUME NEW a \in Actors PROVE OpsScoped(todo[a]) /\ Managers(a) = 0
    <2>1. stage[a] = "start"
        BY DEF Init
    <2>2. CASE a \in Clients
        <3>1. Scoped(p[a]) /\ todo[a] = p[a]
            BY <1>1, <2>2, ScopesAssumption
        <3> QED
            BY <2>1, <3>1 DEF Scoped, OpsScoped, Managers, Leaving
    <2>3. CASE a \notin Clients
        <3>1. todo[a] = <<>>
            BY <1>1, <2>3
        <3> QED
            BY <2>1, <3>1, OwedNothing DEF OpsScoped, Managers, Leaving
    <2> QED
        BY <2>2, <2>3
<1>3. \A w \in Workers : todo[w] = <<>>
    BY <1>1, ThreadPoolAssumption DEF Actors
<1>4. Held = {}
    BY <1>2 DEF Held
<1> QED
    BY <1>2, <1>3, <1>4, FS_EmptySet DEF Init, ScopeInv, RefInv

\* The worker half of ScopeInv, when one actor goes on with its operations.
LEMMA WorkersRest ==
    ASSUME ScopeInv, NEW a \in Actors, a \in Workers => wpc[a] = "run", UNCHANGED wpc,
           \A x \in Actors \ {a} : todo'[x] = todo[x]
    PROVE  \A w \in Workers : wpc'[w] \notin {"notify", "run"} => todo'[w] = <<>>
BY DEF ScopeInv, Actors

LEMMA AcquireCounts ==
    ASSUME PoolInv, ScopeInv, RefInv, NEW a \in Actors, Acquire(a)
    PROVE  ScopeInv' /\ RefInv'
<1>1. /\ todo \in [Actors -> Seq(Op)] /\ stage \in [Actors -> {"start", "wait"}]
      /\ todo[a] \in Seq(Op) /\ todo[a] # <<>> /\ Head(todo[a]).op = "acquire"
      /\ OpsScoped(todo[a]) /\ (a \in Workers => wpc[a] = "run")
    BY DEF Acquire, At, PoolInv, Types, ScopeInv
<1>2. /\ todo'[a] = Tail(todo[a]) /\ stage'[a] = "start"
      /\ \A x \in Actors \ {a} : todo'[x] = todo[x] /\ stage'[x] = stage[x]
    BY <1>1 DEF Acquire, Advance
<1>3. \A x \in Actors : OpsScoped(todo'[x])
    BY <1>1, <1>2, ScopedTail DEF ScopeInv
<1>4. \A x \in Actors \ {a} : Managers(x)' = Managers(x)
    BY <1>2 DEF Managers, Leaving
<1>5. Managers(a) \in Nat /\ Managers(a)' = Managers(a) + 1
    <2>1. Owed(todo[a], 1) \in Nat
        BY <1>1, OwedIsNat
    <2>2. Owed(todo'[a], 1) = Owed(todo[a], 1) + 1
        BY <1>1, <1>2, OwedHead
    <2>3. Managers(a) = Owed(todo[a], 1) /\ Managers(a)' = Owed(todo'[a], 1)
        BY <1>1, <1>2, <2>1, <2>2 DEF Managers, Leaving
    <2> QED
        BY <2>1, <2>2, <2>3
<1>6. RefInv'
    <2>1. ref_count' = ref_count + 1
        BY DEF Acquire
    <2> QED
        BY <1>4, <1>5, <2>1, HeldGrows
<1>7. \A w \in Workers : wpc'[w] \notin {"notify", "run"} => todo'[w] = <<>>
    <2>1. CASE ref_count = 0
        <3>1. \A w \in Workers : wpc[w] = "none"
            BY <2>1 DEF Acquire, PoolInv, MgrInv, WorkersInv, Workers
        <3>2. a \notin Workers
            BY <1>1, <3>1
        <3> QED
            BY <1>2, <3>1, <3>2 DEF ScopeInv, Actors
    <2>2. CASE ref_count # 0
        BY <1>1, <1>2, <2>2, WorkersRest DEF Acquire
    <2> QED
        BY <2>1, <2>2
<1> QED
    BY <1>3, <1>6, <1>7 DEF ScopeInv

LEMMA ReleaseCounts ==
    ASSUME PoolInv, ScopeInv, RefInv, NEW a \in Actors, Release(a) \/ Destroy(a)
    PROVE  ScopeInv' /\ RefInv'
<1>1. /\ todo \in [Actors -> Seq(Op)] /\ stage \in [Actors -> {"start", "wait"}]
      /\ todo[a] \in Seq(Op) /\ todo[a] # <<>> /\ Head(todo[a]).op = "release"
      /\ OpsScoped(todo[a]) /\ (a \in Workers => wpc[a] = "run")
    BY DEF Release, Destroy, At, PoolInv, Types, ScopeInv
<1>2. /\ Tail(todo[a]) \in Seq(Op) /\ OpsScoped(Tail(todo[a]))
      /\ Owed(Tail(todo[a]), 1) \in Nat /\ Owed(todo[a], 1) = Owed(Tail(todo[a]), 1) + 1
    <2>1. Tail(todo[a]) \in Seq(Op) /\ OpsScoped(Tail(todo[a]))
        BY <1>1, ScopedTail
    <2>2. Owed(Tail(todo[a]), 1) \in Nat
        BY <2>1, OwedIsNat
    <2>3. Owed(Tail(todo[a]), 1) = Owed(todo[a], 1) - 1 /\ Owed(todo[a], 1) \in Int
        BY <1>1, OwedHead
    <2> QED
        BY <2>1, <2>2, <2>3
<1>3. /\ \/ todo'[a] = Tail(todo[a]) /\ stage'[a] = "start"
         \/ todo'[a] = todo[a] /\ stage'[a] = "wait"
      /\ \A x \in Actors \ {a} : todo'[x] = todo[x] /\ stage'[x] = stage[x]
    BY <1>1 DEF Release, Destroy, Advance, Sleep
<1>4. \A x \in Actors : OpsScoped(todo'[x])
    BY <1>1, <1>2, <1>3 DEF ScopeInv
<1>5. \A w \in Workers : wpc'[w] \notin {"notify", "run"} => todo'[w] = <<>>
    BY <1>1, <1>3, WorkersRest DEF Release, Destroy
<1>6. \A x \in Actors \ {a} : Managers(x)' = Managers(x)
    BY <1>3 DEF Managers, Leaving
<1>7. Managers(a)' = Owed(Tail(todo[a]), 1)
    <2>1. CASE todo'[a] = Tail(todo[a]) /\ stage'[a] = "start"
        BY <1>2, <2>1 DEF Managers, Leaving
    <2>2. CASE todo'[a] = todo[a] /\ stage'[a] = "wait"
        <3>1. Leaving(a)'
            BY <1>1, <2>2 DEF Leaving
        <3>2. Managers(a)' = Owed(todo[a], 1) - 1
            BY <2>2, <3>1 DEF Managers
        <3> QED
            BY <1>2, <3>2
    <2> QED
        BY <1>3, <2>1, <2>2
<1>8. CASE Release(a)
    <2>1. Managers(a) = Owed(Tail(todo[a]), 1) + 1
        BY <1>2, <1>8 DEF Release, Managers, Leaving
    <2>2. Managers(a) \in Nat \ {0} /\ Managers(a)' = Managers(a) - 1
        BY <1>2, <1>7, <2>1
    <2>3. ref_count' = ref_count - 1
        BY <1>8 DEF Release
    <2>4. RefInv'
        BY <1>6, <2>2, <2>3, HeldShrinks
    <2> QED
        BY <1>4, <1>5, <2>4 DEF ScopeInv
<1>9. CASE Destroy(a)
    <2>1. Leaving(a)
        BY <1>1, <1>9 DEF Destroy, Leaving
    <2>2. Managers(a) = Owed(todo[a], 1) - 1
        BY <2>1 DEF Managers
    <2>3. Managers(a)' = Managers(a)
        BY <1>2, <1>7, <2>2
    <2>4. UNCHANGED ref_count
        BY <1>9 DEF Destroy
    <2>5. RefInv'
        BY <1>6, <2>3, <2>4, HeldStays
    <2> QED
        BY <1>4, <1>5, <2>5 DEF ScopeInv
<1> QED
    BY <1>8, <1>9

LEMMA RefInvNext == PoolInv /\ ScopeInv /\ RefInv /\ [Next]_vars => ScopeInv' /\ RefInv'
<1> SUFFICES ASSUME PoolInv, ScopeInv, RefInv, [Next]_vars PROVE ScopeInv' /\ RefInv'
    OBVIOUS
<1>0. /\ todo \in [Actors -> Seq(Op)] /\ stage \in [Actors -> {"start", "wait"}]
      /\ wpc \in [Workers -> {"none", "check", "notify", "run", "finish", "signal"}]
      /\ Types /\ tasks \in Seq(Tasks)
    BY DEF PoolInv, Types
<1>1. ASSUME UNCHANGED <<todo, stage, ref_count>>,
             \A w \in Workers : wpc'[w] \notin {"notify", "run"} =>
                                    wpc[w] \notin {"notify", "run"} \/ todo[w] = <<>>
      PROVE  ScopeInv' /\ RefInv'
    <2>1. \A a \in Actors : Managers(a)' = Managers(a)
        BY <1>1 DEF Managers, Leaving
    <2>2. RefInv'
        BY <1>1, <2>1, HeldStays
    <2>3. ScopeInv'
        BY <1>1 DEF ScopeInv, Actors, Workers
    <2> QED
        BY <2>2, <2>3
<1>2. ASSUME NEW a \in Actors, Acquire(a) PROVE ScopeInv' /\ RefInv'
    BY <1>2, AcquireCounts
<1>3. ASSUME NEW a \in Actors, Release(a) \/ Destroy(a) PROVE ScopeInv' /\ RefInv'
    BY <1>3, ReleaseCounts
<1>4. ASSUME NEW a \in Actors,
             \/ SetThreadCount(a) \/ EnqueueWaits(a) \/ Enqueue(a) \/ Get(a)
             \/ SetQueueSizeLimit(a) \/ WaitUntilEmpty(a) \/ WaitUntilNothingInFlight(a)
      PROVE  ScopeInv' /\ RefInv'
    <2>1. /\ todo[a] # <<>> /\ Head(todo[a]).op \notin {"acquire", "release"}
          /\ Advance(a) \/ Unwind(a) \/ Sleep(a)
          /\ a \in Workers => wpc[a] = "run"
          /\ UNCHANGED ref_count
        BY <1>4 DEF SetThreadCount, EnqueueWaits, Enqueue, Get, SetQueueSizeLimit, WaitUntilEmpty,
                    WaitUntilNothingInFlight, At, mgrVars
    <2>2. /\ \A x \in Actors : OpsScoped(todo'[x])
          /\ \A x \in Actors : Managers(x)' = Managers(x)
        BY <1>0, <2>1, OtherOperations
    <2>3. RefInv'
        BY <2>1, <2>2, HeldStays
    <2>4. \A x \in Actors \ {a} : todo'[x] = todo[x]
        BY <1>0, <2>1 DEF Advance, Unwind, Sleep
    <2>5. \A w \in Workers : wpc'[w] \notin {"notify", "run"} => todo'[w] = <<>>
        <3>1. CASE SetThreadCount(a)
            <4>1. \A w \in Workers : wpc'[w] = wpc[w] \/ (wpc[w] = "none" /\ wpc'[w] = "check")
                BY <1>0, <3>1, ThreadPoolAssumption
                   DEF SetThreadCount, PoolInv, Types, WorkersInv, Workers
            <4> QED
                BY <2>1, <2>4, <4>1 DEF ScopeInv, Actors
        <3>2. CASE ~SetThreadCount(a)
            <4>1. UNCHANGED wpc
                BY <1>4, <3>2 DEF EnqueueWaits, Enqueue, Get, SetQueueSizeLimit, WaitUntilEmpty,
                                  WaitUntilNothingInFlight
            <4> QED
                BY <2>1, <2>4, <4>1, WorkersRest
        <3> QED
            BY <3>1, <3>2
    <2> QED
        BY <2>2, <2>3, <2>5 DEF ScopeInv
<1>5. ASSUME NEW a \in Actors, SpuriousWake(a) PROVE ScopeInv' /\ RefInv'
    BY <1>1, <1>5 DEF SpuriousWake, mgrVars
<1>6. ASSUME NEW w \in Workers,
             \/ WorkerSleep(w) \/ WorkerExit(w) \/ WorkerNotify(w) \/ TaskEnd(w)
             \/ WorkerDecrement(w) \/ WorkerSignal(w)
      PROVE  ScopeInv' /\ RefInv'
    <2>1. UNCHANGED <<todo, stage, ref_count>>
        BY <1>6 DEF WorkerSleep, WorkerExit, WorkerNotify, TaskEnd, WorkerDecrement, WorkerSignal,
                    mgrVars
    <2>2. \A v \in Workers : wpc'[v] \notin {"notify", "run"} =>
                                wpc[v] \notin {"notify", "run"} \/ todo[v] = <<>>
        BY <1>0, <1>6 DEF WorkerSleep, WorkerExit, WorkerNotify, TaskEnd, WorkerDecrement,
                          WorkerSignal, Ready
    <2> QED
        BY <1>1, <2>1, <2>2
<1>7. ASSUME NEW w \in Workers, WorkerTake(w) PROVE ScopeInv' /\ RefInv'
    <2>1. PICK k \in Tasks : k = Head(tasks)
        BY <1>0, <1>7 DEF WorkerTake
    <2>2. /\ todo' = [todo EXCEPT ![w] = Body[k]] /\ stage' = [stage EXCEPT ![w] = "start"]
          /\ todo[w] = <<>> /\ w \in Actors /\ UNCHANGED ref_count
          /\ wpc'[w] \in {"notify", "run"} /\ \A v \in Workers \ {w} : wpc'[v] = wpc[v]
        BY <1>0, <1>7, <2>1 DEF WorkerTake, Ready, ScopeInv, Actors, mgrVars
    <2>3. Scoped(Body[k])
        BY ScopesAssumption
    <2>4. Managers(w)' = Managers(w)
        <3>1. Managers(w) = 0
            BY <2>2, OwedNothing DEF Managers, Leaving
        <3>2. Managers(w)' = Owed(Body[k], 1)
            <4>1. todo'[w] = Body[k] /\ stage'[w] = "start"
                BY <1>0, <2>2
            <4>2. Owed(Body[k], 1) = 0
                BY <2>3 DEF Scoped
            <4> QED
                BY <4>1, <4>2 DEF Managers, Leaving
        <3> QED
            BY <2>3, <3>1, <3>2 DEF Scoped
    <2>5. \A x \in Actors \ {w} : Managers(x)' = Managers(x)
        BY <1>0, <2>2 DEF Managers, Leaving
    <2>6. RefInv'
        BY <2>2, <2>4, <2>5, HeldStays
    <2>7. \A x \in Actors : OpsScoped(todo'[x])
        BY <1>0, <2>2, <2>3 DEF ScopeInv, OpsScoped, Scoped
    <2>8. \A v \in Workers : wpc'[v] \notin {"notify", "run"} => todo'[v] = <<>>
        BY <1>0, <2>2 DEF ScopeInv, Actors
    <2> QED
        BY <2>6, <2>7, <2>8 DEF ScopeInv
<1>8. CASE Quiet \/ UNCHANGED vars
    BY <1>1, <1>8 DEF Quiet, vars, mgrVars
<1> QED
    BY <1>2, <1>3, <1>4, <1>5, <1>6, <1>7, <1>8 DEF Next, ActorStep, WorkerStep

\* ref_count_ counts the managers there are, so that the pool is destroyed
\* only when nobody holds one, and whoever calls it through a manager has a
\* live pool (ThreadPoolMgr::thread_pool and the check of stop in enqueue never
\* throw), with any number of threads that take and let go of managers.
THEOREM ManagedPoolIsAvailable == Spec => []PoolIsAvailable
<1>1. ASSUME PoolInv, ScopeInv, RefInv PROVE PoolIsAvailable
    <2> SUFFICES ASSUME NEW a \in Actors,
                        \/ Managers(a) > 0
                        \/ todo[a] # <<>> /\ Head(todo[a]).op \in PoolOps
                 PROVE  alive /\ ~stop
        BY DEF PoolIsAvailable
    <2>1. Managers(a) \in Int /\ Managers(a) >= 1
        <3>1. todo[a] \in Seq(Op) /\ OpsScoped(todo[a])
            BY <1>1 DEF PoolInv, Types, ScopeInv
        <3>2. Owed(todo[a], 1) \in Nat
            BY <3>1, OwedIsNat
        <3>3. CASE Managers(a) > 0
            BY <3>2, <3>3 DEF Managers
        <3>4. CASE todo[a] # <<>> /\ Head(todo[a]).op \in PoolOps
            BY <3>1, <3>2, <3>4, OwedIsNat DEF Managers, Leaving, PoolOps
        <3> QED
            BY <3>3, <3>4
    <2>2. <<a, 1>> \in Held
        BY <2>1 DEF Held
    <2>3. ref_count \in Nat /\ ref_count # 0
        BY <1>1, <2>2, FS_EmptySet, FS_CardinalityType DEF RefInv
    <2> QED
        BY <1>1, <2>3 DEF PoolInv, MgrInv
<1> QED
    BY <1>1, PoolInvInit, PoolInvNext, RefInvInit, RefInvNext, PTL DEF Spec
-----------------------------------------------------------------------------
(***************************************************************************)
(* The types.  Those of the counters follow from what they count.          *)
(***************************************************************************)
RestTypes ==
    /\ max_queue_size \in Nat \ {0}
    /\ current \in [Workers -> Tasks]
    /\ producers \subseteq Actors /\ idlers \subseteq Actors

LEMMA RestTypesInit == Init => RestTypes
<1>1. (CHOOSE k \in Tasks : TRUE) \in Tasks
    BY ThreadPoolAssumption
<1> QED
    BY <1>1, ThreadPoolAssumption DEF Init, RestTypes

LEMMA RestTypesNext == PoolInv /\ RestTypes /\ [Next]_vars => RestTypes'
<1> SUFFICES ASSUME PoolInv, RestTypes, [Next]_vars PROVE RestTypes'
    OBVIOUS
<1>0. /\ max_queue_size \in Nat \ {0} /\ QueueLimit \in Nat \ {0}
      /\ todo \in [Actors -> Seq(Op)] /\ tasks \in Seq(Tasks)
    BY ThreadPoolAssumption DEF PoolInv, Types, RestTypes
<1>1. ASSUME NEW a \in Actors, SetQueueSizeLimit(a) PROVE RestTypes'
    <2>1. Head(todo[a]) \in Op /\ Head(todo[a]).op = "set_queue_size_limit"
        BY <1>0, <1>1 DEF SetQueueSizeLimit, At
    <2>2. Head(todo[a]).n \in Nat
        BY <2>1 DEF Op
    <2>3. max_queue_size' \in Nat \ {0}
        BY <1>0, <1>1, <2>2 DEF SetQueueSizeLimit, AsOne
    <2> QED
        BY <1>1, <2>3 DEF SetQueueSizeLimit, RestTypes
<1>2. ASSUME NEW a \in Actors, EnqueueWaits(a) \/ Enqueue(a) PROVE RestTypes'
    <2>1. Limit(a) \in Nat \ {0}
        BY <1>0 DEF Limit
    <2> QED
        BY <1>2, <2>1 DEF EnqueueWaits, Enqueue, RestTypes
<1>3. ASSUME NEW a \in Actors,
             \/ Acquire(a) \/ Release(a) \/ Destroy(a) \/ SetThreadCount(a) \/ Get(a)
             \/ WaitUntilEmpty(a) \/ WaitUntilNothingInFlight(a) \/ SpuriousWake(a)
      PROVE  RestTypes'
    BY <1>0, <1>3 DEF RestTypes, Acquire, Release, Destroy, SetThreadCount, Get, WaitUntilEmpty,
                      WaitUntilNothingInFlight, SpuriousWake, poolVars
<1>4. ASSUME NEW w \in Workers, WorkerTake(w) PROVE RestTypes'
    <2>1. Head(tasks) \in Tasks
        BY <1>0, <1>4 DEF WorkerTake
    <2> QED
        BY <1>4, <2>1 DEF WorkerTake, RestTypes, poolVars
<1>5. ASSUME NEW w \in Workers,
             \/ WorkerSleep(w) \/ WorkerExit(w) \/ WorkerNotify(w) \/ TaskEnd(w)
             \/ WorkerDecrement(w) \/ WorkerSignal(w)
      PROVE  RestTypes'
    BY <1>5 DEF RestTypes, WorkerSleep, WorkerExit, WorkerNotify, TaskEnd, WorkerDecrement,
                WorkerSignal, poolVars
<1>6. CASE Quiet \/ UNCHANGED vars
    BY <1>6 DEF Quiet, vars, RestTypes, poolVars
<1> QED
    BY <1>1, <1>2, <1>3, <1>4, <1>5, <1>6 DEF Next, ActorStep, WorkerStep

\* The types of the pool and its manager; in particular neither in_flight nor
\* ref_count_, which are decremented unchecked, falls below zero
\* (thread_pool.h:100-107, thread_pool_mgr.cpp:57-65).
THEOREM TypeCorrect == Spec => []TypeOK
<1>1. ASSUME PoolInv, BooksInv, RefInv, RestTypes PROVE TypeOK
    <2>1. ref_count \in Nat
        BY <1>1, FS_CardinalityType DEF RefInv
    <2>2. in_flight \in Nat
        <3>1. Len(tasks) \in Nat
            BY <1>1 DEF PoolInv, Types
        <3> QED
            BY <1>1, <3>1, HoldersFinite DEF BooksInv, CountInv
    <2>3. status \in [Tasks -> {"new", "queued", "running", "ok", "threw"}]
        BY <1>1 DEF BooksInv, LedgerInv
    <2> QED
        BY <1>1, <2>1, <2>2, <2>3 DEF PoolInv, Types, RestTypes, TypeOK
<1> QED
    BY <1>1, PoolInvInit, PoolInvNext, BooksInvInit, BooksInvNext, RefInvInit, RefInvNext,
       RestTypesInit, RestTypesNext, PTL DEF Spec
=============================================================================
