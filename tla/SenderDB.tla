------------------------------ MODULE SenderDB ------------------------------
(***************************************************************************)
(* The sender's database (sender/apsi/sender_db.cpp) as several threads    *)
(* use it: the set hashed_items_, the bundles at every bundle index, the   *)
(* reader-writer lock, the worker tasks that insert_or_assign and remove   *)
(* hand to the thread pool, and the queries of Sender::RunQuery that read  *)
(* the caches under the reader lock.                                       *)
(*                                                                         *)
(* A call goes through: the unlocked check of stripped_; the writer lock;  *)
(* the update of hashed_items_ and item_count_; one dispatch per group of  *)
(* items; one task per bundle index; the wait for the tasks in order;      *)
(* generate_caches; unlock.  An exception leaves at any of these points    *)
(* and undoes nothing.                                                     *)
(***************************************************************************)
EXTENDS BundleSet

CONSTANTS Threads,     \* threads that call the SenderDB
          NoThread,    \* the writer lock is free
          PoolThreads, \* threads of the thread pool
          EmptyLabel,  \* the label of a moved-from vector element
          Scripts      \* bound: what the threads do, thread -> sequence of calls

ASSUME SenderDBAssumption ==
    /\ NoThread \notin Threads
    /\ PoolThreads \in Nat \ {0}
    /\ EmptyLabel \notin Labels \cup {NoLabel}

Call == [op : {"insert", "remove", "clear", "set_data", "strip", "query"}, data : Seq(Datum)]

ASSUME ScriptsAssumption == Scripts \subseteq [Threads -> Seq(Call)]

VARIABLES
    hashed_items,   \* hashed_items_
    item_count,     \* item_count_
    bin_bundles,    \* bin_bundles_: bundle index -> sequence of BinBundles
    stripped,       \* stripped_
    writer,         \* the thread that holds the writer lock, or NoThread
    readers,        \* the threads that hold the reader lock
    pc,             \* where each thread is
    call,           \* the call each thread is making
    result,         \* how the last call of each thread ended
    plan,           \* the dispatches a writer still has to make
    tasks,          \* thread -> bundle index -> its task
    orphans,        \* tasks whose dispatch has ended with an exception
    to_strip,       \* the bundles whose BinBundle::strip is queued on the pool
    regenerating,   \* the bundles whose BinBundle::strip waits for regen_cache
    announced,      \* package_count the query of a thread has sent
    committed,      \* history: what queries answered when the lock was last free
    torn,           \* history: the items of which nothing is promised any more
    script          \* the calls each thread has still to make

vars == <<hashed_items, item_count, bin_bundles, stripped, writer, readers,
          pc, call, result, plan, tasks, orphans, to_strip, regenerating, announced, committed, torn, script>>

stripVars == <<to_strip, regenerating>>

dbVars == <<hashed_items, item_count, bin_bundles, stripped>>
-----------------------------------------------------------------------------
(***************************************************************************)
(* The pass over the data, and the dispatches it leads to                  *)
(***************************************************************************)

\* std::remove_if that keeps the positions K: they move to the front in
\* order; every position behind them keeps its old element, except that the
\* label of an element that was moved forward is gone.
RemoveIf(data, K) ==
    [m \in DOMAIN data |->
        IF m <= Cardinality(K) THEN data[Nth(K, m)]
        ELSE IF m \in K /\ Labeled THEN [data[m] EXCEPT !.label = EmptyLabel]
        ELSE data[m]]

FirstOccurrence(data, j) == \A m \in 1 .. j - 1 : data[m].item # data[j].item

\* Bug variant: the predicate only reads hashed_items_, which is updated later.
Bug_NewPositionsRepeated(data) == {j \in DOMAIN data : data[j].item \notin hashed_items}

\* The positions the predicate of insert_or_assign (of remove) keeps; the
\* predicate updates hashed_items_ as it goes, so a repeated item counts once.
NewPositions(data) ==
    {j \in DOMAIN data : data[j].item \notin hashed_items /\ FirstOccurrence(data, j)}
PresentPositions(data) ==
    {j \in DOMAIN data : data[j].item \in hashed_items /\ FirstOccurrence(data, j)}
ItemsAt(data, K) == {data[j].item : j \in K}
Named(data)      == ItemsAt(data, DOMAIN data)

Front_(data, n) == SubSeq(data, 1, n)
Back_(data, n)  == SubSeq(data, n + 1, Len(data))
Step_(op, data) == IF data = <<>> THEN <<>> ELSE <<[op |-> op, data |-> data]>>

\* Bug variant: the items that are known already are not erased.
Bug_InsertPlanNoErase(data, K) == <<[op |-> "insert", data |-> RemoveIf(data, K)]>>

\* The dispatches of a labeled insertion: existing items, then new ones.
InsertPlan(data, K) ==
    LET n == Cardinality(K)
    IN  IF Labeled
        THEN Step_("overwrite", Back_(RemoveIf(data, K), n))
             \o Step_("insert", Front_(RemoveIf(data, K), n))
        ELSE <<[op |-> "insert", data |-> Front_(RemoveIf(data, K), n)]>>

\* remove() passes on the whole vector, the tail behind remove_if included.
RemovePlan(data, K) == <<[op |-> "remove", data |-> RemoveIf(data, K)]>>
-----------------------------------------------------------------------------
NoTask  == [status |-> "none", op |-> "none", todo |-> <<>>]
NoTasks == [idx \in BundleIdx |-> NoTask]
NoCall  == [op |-> "none", data |-> <<>>]
Running(t) == {idx \in BundleIdx : tasks[t][idx].status = "running"}

BundleCount == BundlesIn(bin_bundles)
AllBundles == UNION {ToSet(bin_bundles[idx]) : idx \in BundleIdx}
StaleCache == \E b \in AllBundles : b.cache_invalid

\* A ThreadPoolMgr of the thread is alive: RunQuery creates one before it
\* takes the lock, a dispatch and strip() keep one until their tasks are done.
HoldsPool(t) == pc[t] \in {"q_wait", "q_locked", "q_stuck", "q_sent", "q_leave", "q_throw",
                          "join", "unwind", "strip"}

\* Bug variant: a writer does not wait for the readers.
Bug_LockFreeIgnoresReaders == writer = NoThread

\* What a writer waits for; a reader waits for writer = NoThread only.
LockFree == writer = NoThread /\ readers = {}

Init ==
    /\ hashed_items = {} /\ item_count = 0 /\ bin_bundles = EmptyDB /\ stripped = FALSE
    /\ writer = NoThread /\ readers = {}
    /\ pc = [t \in Threads |-> "idle"]
    /\ call = [t \in Threads |-> NoCall]
    /\ result = [t \in Threads |-> "none"]
    /\ plan = [t \in Threads |-> <<>>]
    /\ tasks = [t \in Threads |-> NoTasks]
    /\ orphans = <<>>
    /\ to_strip = <<>> /\ regenerating = {}
    /\ announced = [t \in Threads |-> 0]
    /\ committed = [i \in Items |-> Absent]
    /\ torn = {}
    /\ script \in Scripts

Goto(t, l) == pc' = [pc EXCEPT ![t] = l]

\* The call ends: "ok", or "threw" when an exception reaches the caller.
Return(t, how) ==
    /\ Goto(t, "idle")
    /\ call' = [call EXCEPT ![t] = NoCall]
    /\ result' = [result EXCEPT ![t] = how]

\* insert_or_assign and remove throw at once on a stripped database; the
\* check reads stripped_ before the lock.
Enter(t) ==
    /\ pc[t] = "idle" /\ script[t] # <<>>
    /\ LET c == Head(script[t])
       IN  IF c.op \in {"insert", "remove"} /\ stripped
           THEN Return(t, "threw")
           ELSE /\ UNCHANGED result
                /\ call' = [call EXCEPT ![t] = c]
                /\ Goto(t, IF c.op = "query" THEN "q_wait" ELSE "waiting")
    /\ script' = [script EXCEPT ![t] = Tail(@)]
    /\ UNCHANGED <<dbVars, writer, readers, plan, tasks, orphans, stripVars, announced,
                   committed, torn>>

\* The writer lock, then the pass over the data that updates hashed_items_
\* and item_count_ before any bundle is touched.  Converting an item whose
\* label was moved away throws before anything is dispatched.
Lock(t) ==
    LET data == call[t].data
        K == IF call[t].op = "insert" THEN NewPositions(data) ELSE PresentPositions(data)
        p == IF call[t].op = "insert" THEN InsertPlan(data, K) ELSE RemovePlan(data, K)
    IN
    /\ pc[t] = "waiting" /\ call[t].op \in {"insert", "remove"} /\ LockFree
    /\ writer' = t
    /\ IF call[t].op = "insert"
       THEN /\ hashed_items' = hashed_items \cup ItemsAt(data, K)
            /\ item_count' = item_count + Cardinality(K)
       ELSE /\ hashed_items' = hashed_items \ ItemsAt(data, K)
            /\ item_count' = item_count - Cardinality(K)
    /\ plan' = [plan EXCEPT ![t] = p]
    /\ Goto(t, "dispatch")
    /\ UNCHANGED <<bin_bundles, stripped, readers, call, result, tasks, orphans, stripVars,
                   announced, committed, torn, script>>

BadLabel(step) == \E j \in DOMAIN step.data : step.data[j].label = EmptyLabel

\* dispatch_insert_or_assign, dispatch_remove: one task per bundle index
Dispatch(t) ==
    /\ pc[t] = "dispatch" /\ plan[t] # <<>> /\ ~BadLabel(Head(plan[t]))
    /\ tasks' = [tasks EXCEPT ![t] = [idx \in BundleIdx |->
                   LET todo == TaskOf(Head(plan[t]).data, idx)
                   IN  IF todo = <<>> THEN NoTask
                       ELSE [status |-> "running", op |-> Head(plan[t]).op, todo |-> todo]]]
    /\ plan' = [plan EXCEPT ![t] = Tail(@)]
    /\ Goto(t, "join")
    /\ UNCHANGED <<dbVars, writer, readers, call, result, orphans, stripVars, announced,
                   committed, torn, script>>

\* A pool thread runs the task of t at one bundle index for one more item.
Work(t, idx) ==
    LET task == tasks[t][idx]
        r == WorkItem(bin_bundles[idx], task.op, Head(task.todo))
    IN
    /\ task.status = "running"
    /\ bin_bundles' = [bin_bundles EXCEPT ![idx] = r.set]
    /\ tasks' = [tasks EXCEPT ![t][idx] =
                   [task EXCEPT !.todo = Tail(@),
                                !.status = IF r.threw THEN "threw"
                                           ELSE IF Len(task.todo) = 1 THEN "ok"
                                           ELSE "running"]]
    /\ UNCHANGED <<hashed_items, item_count, stripped, writer, readers, pc, call, result, plan,
                   orphans, stripVars, announced, committed, torn, script>>

\* The waits f.get() are made in index order: the first future that holds an
\* exception ends them, whatever the later tasks are still doing.
ThrewFirst(t) == \E idx \in BundleIdx :
    /\ tasks[t][idx].status = "threw"
    /\ \A k \in 0 .. idx - 1 : tasks[t][k].status \in {"none", "ok"}

\* Bug variant: a future is awaited at every bundle index, task or no task.
Bug_JoinAll(t) ==
    /\ pc[t] = "join"
    /\ \/ /\ \A idx \in BundleIdx : tasks[t][idx].status = "ok"
          /\ Goto(t, "dispatch")
          /\ tasks' = [tasks EXCEPT ![t] = NoTasks]
       \/ /\ ThrewFirst(t)
          /\ Goto(t, "unwind")
          /\ UNCHANGED tasks
    /\ UNCHANGED <<dbVars, writer, readers, call, result, plan, orphans, stripVars,
                   announced, committed, torn, script>>

Join(t) ==
    /\ pc[t] = "join"
    /\ \/ /\ \A idx \in BundleIdx : tasks[t][idx].status \in {"none", "ok"}
          /\ Goto(t, "dispatch")
          /\ tasks' = [tasks EXCEPT ![t] = NoTasks]
       \/ /\ ThrewFirst(t)
          /\ Goto(t, "unwind")
          /\ UNCHANGED tasks
    /\ UNCHANGED <<dbVars, writer, readers, call, result, plan, orphans, stripVars,
                   announced, committed, torn, script>>

\* ~ThreadPoolMgr drains the pool when no other manager is alive.
DrainedOrShared(t) ==
    \/ Running(t) = {} /\ orphans = <<>>
    \/ \E q \in Threads \ {t} : HoldsPool(q)

\* The exception leaves the call: first the manager of the dispatch, then
\* the lock.  No cache is regenerated, and what became of the items the call
\* names depends on how far its tasks got.
Unwind(t) ==
    /\ pc[t] = "unwind" /\ DrainedOrShared(t)
    /\ writer' = NoThread
    /\ plan' = [plan EXCEPT ![t] = <<>>]
    /\ tasks' = [tasks EXCEPT ![t] = NoTasks]
    /\ orphans' = orphans \o [j \in 1 .. Cardinality(Running(t)) |->
                     LET idx == Nth(Running(t), j)
                     IN  [idx |-> idx, task |-> tasks[t][idx]]]
    /\ Return(t, "threw")
    /\ committed' = Answers(bin_bundles)
    /\ torn' = torn \cup Named(call[t].data)
    /\ UNCHANGED <<dbVars, readers, stripVars, announced, script>>

\* A task that outlives its dispatch works on.
OrphanWork(n) ==
    LET o == orphans[n]
        r == WorkItem(bin_bundles[o.idx], o.task.op, Head(o.task.todo))
    IN
    /\ bin_bundles' = [bin_bundles EXCEPT ![o.idx] = r.set]
    /\ orphans' = IF r.threw \/ Len(o.task.todo) = 1 THEN RemoveAt(orphans, n)
                  ELSE [orphans EXCEPT ![n].task.todo = Tail(@)]
    /\ UNCHANGED <<hashed_items, item_count, stripped, writer, readers, pc, call, result, plan,
                   tasks, stripVars, announced, committed, torn, script>>

\* The vectors its lambda refers to are gone: what it reads from freed memory
\* may also match none of its items.
OrphanLost(n) ==
    /\ orphans' = RemoveAt(orphans, n)
    /\ UNCHANGED <<dbVars, writer, readers, pc, call, result, plan, tasks, stripVars,
                   announced, committed, torn, script>>

\* dispatch_remove captures bundle_idx by reference to a vector that is
\* destroyed before the pool is drained: the same, earlier.
TaskLost(t, idx) ==
    /\ pc[t] = "unwind" /\ idx \in Running(t) /\ tasks[t][idx].op = "remove"
    /\ tasks' = [tasks EXCEPT ![t][idx] = NoTask]
    /\ UNCHANGED <<dbVars, writer, readers, pc, call, result, plan, orphans, stripVars,
                   announced, committed, torn, script>>

\* Converting the moved-from label throws before the dispatch.
ConvertFails(t) ==
    /\ pc[t] = "dispatch" /\ plan[t] # <<>> /\ BadLabel(Head(plan[t]))
    /\ Goto(t, "unwind")
    /\ UNCHANGED <<dbVars, writer, readers, call, result, plan, tasks, orphans, stripVars,
                   announced, committed, torn, script>>

\* generate_caches and the end of the call
Finish(t) ==
    /\ pc[t] = "dispatch" /\ plan[t] = <<>>
    /\ bin_bundles' = GenerateCaches(bin_bundles)
    /\ writer' = NoThread
    /\ Return(t, "ok")
    /\ committed' = Answers(bin_bundles')
    /\ torn' = torn \cup {i \in Named(call[t].data) : committed'[i] = Garbled}
    /\ UNCHANGED <<hashed_items, item_count, stripped, readers, plan, tasks, orphans,
                   stripVars, announced, script>>

\* clear(), also the first half of set_data()
Clear(t) ==
    /\ pc[t] = "waiting" /\ call[t].op \in {"clear", "set_data"} /\ LockFree
    /\ hashed_items' = {} /\ item_count' = 0 /\ bin_bundles' = EmptyDB /\ stripped' = FALSE
    /\ IF call[t].op = "clear" THEN Return(t, "ok")
       ELSE /\ Goto(t, "reenter")
            /\ call' = [call EXCEPT ![t] = [op |-> "insert", data |-> call[t].data]]
            /\ UNCHANGED result
    /\ committed' = Answers(bin_bundles')
    /\ torn' = IF orphans = <<>> THEN {} ELSE torn
    /\ UNCHANGED <<writer, readers, plan, tasks, orphans, stripVars, announced, script>>

\* set_data() goes on with insert_or_assign, which checks stripped_ again.
SetDataInsert(t) ==
    /\ pc[t] = "reenter"
    /\ IF stripped THEN Return(t, "threw") ELSE Goto(t, "waiting") /\ UNCHANGED <<call, result>>
    /\ UNCHANGED <<dbVars, writer, readers, plan, tasks, orphans, stripVars, announced,
                   committed, torn, script>>

\* A bundle is known by its place, as the lambda refers to it (&bb).  A place
\* that an orphaned task has erased is no part of the database any more.
Places == FlattenSeq([k \in 1 .. BundleIdxCount |->
                        [j \in DOMAIN bin_bundles[k - 1] |-> <<k - 1, j>>]])
BundleAt(p) == bin_bundles[p[1]][p[2]]
IsThere(p)  == p[2] \in DOMAIN bin_bundles[p[1]]
StripAt(p)  == IF IsThere(p) THEN [bin_bundles EXCEPT ![p[1]][p[2]] = StripBundle(@)]
               ELSE bin_bundles

\* strip(): stripped_ and hashed_items_ first, then one task per bundle
StripBegin(t) ==
    /\ pc[t] = "waiting" /\ call[t].op = "strip" /\ LockFree
    /\ writer' = t
    /\ stripped' = TRUE /\ hashed_items' = {}
    /\ to_strip' = Places
    /\ Goto(t, "strip")
    /\ UNCHANGED <<item_count, bin_bundles, readers, call, result, plan, tasks, orphans,
                   regenerating,
                   announced, committed, torn, script>>

\* A pool thread is not kept by a task that waits for tasks of its own.
ThreadLeft == Cardinality(regenerating) < PoolThreads

\* A pool thread takes the next task.  A valid cache is kept and the rest of
\* the bundle dropped; a stale one makes regen_cache dispatch to the same
\* pool and wait, on the thread it has.
StripTask ==
    /\ to_strip # <<>> /\ ThreadLeft
    /\ LET p == Head(to_strip)
       IN  IF IsThere(p) /\ BundleAt(p).cache_invalid
           THEN regenerating' = regenerating \cup {p} /\ UNCHANGED bin_bundles
           ELSE bin_bundles' = StripAt(p) /\ UNCHANGED regenerating
    /\ to_strip' = Tail(to_strip)
    /\ UNCHANGED <<hashed_items, item_count, stripped, writer, readers, pc, call, result, plan,
                   tasks, orphans, announced, committed, torn, script>>

\* The inner tasks need another thread; then the bundle is stripped.
Regenerate(p) ==
    /\ p \in regenerating /\ ThreadLeft
    /\ bin_bundles' = StripAt(p)
    /\ regenerating' = regenerating \ {p}
    /\ UNCHANGED <<hashed_items, item_count, stripped, writer, readers, pc, call, result, plan,
                   tasks, orphans, to_strip, announced, committed, torn, script>>

\* All futures are ready: first the manager goes, then the lock.
StripEnd(t) ==
    /\ pc[t] = "strip" /\ to_strip = <<>> /\ regenerating = {} /\ DrainedOrShared(t)
    /\ writer' = NoThread
    /\ Return(t, "ok")
    /\ committed' = Answers(bin_bundles)
    /\ UNCHANGED <<dbVars, readers, plan, tasks, orphans, stripVars, announced, torn, script>>

\* Sender::RunQuery: the reader lock
QueryLock(t) ==
    /\ pc[t] = "q_wait" /\ writer = NoThread
    /\ readers' = readers \cup {t}
    /\ Goto(t, "q_locked")
    /\ UNCHANGED <<dbVars, writer, call, result, plan, tasks, orphans, stripVars,
                   announced, committed, torn, script>>

\* the QueryResponse, which promises package_count result packages.
\* get_bin_bundle_count takes the reader lock that RunQuery already holds.
\* The standard leaves that undefined: it is granted, or, where readers queue
\* behind a waiting writer, each waits for the other.
QuerySend(t) ==
    /\ pc[t] = "q_locked"
    /\ announced' = [announced EXCEPT ![t] = BundleCount]
    /\ Goto(t, "q_sent")
    /\ UNCHANGED <<dbVars, writer, readers, call, result, plan, tasks, orphans, stripVars,
                   committed, torn, script>>

QueryBlocks(t) ==
    /\ pc[t] = "q_locked" /\ \E q \in Threads : pc[q] = "waiting"
    /\ Goto(t, "q_stuck")
    /\ UNCHANGED <<dbVars, writer, readers, call, result, plan, tasks, orphans, stripVars,
                   announced,
                   committed, torn, script>>

\* get_cache_at for every bundle index, one task and one ResultPackage per
\* cache.  A stale cache throws here, with the response already sent.  The
\* lock goes first, the manager of the pool last.
QueryEnd(t) ==
    /\ pc[t] = "q_sent"
    /\ readers' = readers \ {t}
    /\ announced' = [announced EXCEPT ![t] = 0]
    /\ Goto(t, IF StaleCache THEN "q_throw" ELSE "q_leave")
    /\ UNCHANGED <<dbVars, writer, call, result, plan, tasks, orphans, stripVars,
                   committed, torn, script>>

QueryLeave(t) ==
    /\ pc[t] \in {"q_leave", "q_throw"} /\ DrainedOrShared(t)
    /\ Return(t, IF pc[t] = "q_leave" THEN "ok" ELSE "threw")
    /\ UNCHANGED <<dbVars, writer, readers, plan, tasks, orphans, stripVars, announced,
                   committed, torn, script>>

\* Nothing may move any more: every pool thread waits for another one, or a
\* reader and the writers wait for each other.
PoolStuck == Cardinality(regenerating) = PoolThreads
LockStuck == \E t \in Threads : pc[t] = "q_stuck"

\* Every thread has made its calls, or cannot.
Quiet ==
    /\ \/ orphans = <<>> /\ \A t \in Threads : pc[t] = "idle" /\ script[t] = <<>>
       \/ PoolStuck \/ LockStuck
    /\ UNCHANGED vars

Step(t) ==
    \/ Lock(t) \/ Dispatch(t) \/ Join(t) \/ Unwind(t) \/ ConvertFails(t) \/ Finish(t)
    \/ Clear(t) \/ SetDataInsert(t) \/ StripBegin(t) \/ StripEnd(t)
    \/ QueryLock(t) \/ QuerySend(t) \/ QueryBlocks(t) \/ QueryEnd(t) \/ QueryLeave(t)

Next ==
    \/ \E t \in Threads : Enter(t) \/ Step(t)
    \/ \E t \in Threads, idx \in BundleIdx : Work(t, idx) \/ TaskLost(t, idx)
    \/ \E n \in DOMAIN orphans : OrphanWork(n) \/ OrphanLost(n)
    \/ StripTask \/ \E p \in regenerating : Regenerate(p)
    \/ Quiet

Spec == Init /\ [][Next]_vars

\* Pool threads keep taking work and a thread inside a call keeps running.
\* The calls are finite, so the lock is not fought over for ever.
Fairness == \A t \in Threads :
    /\ WF_vars(Step(t))
    /\ \A idx \in BundleIdx : WF_vars(Work(t, idx))

FairSpec ==
    /\ Spec /\ Fairness
    /\ WF_vars(\E n \in DOMAIN orphans : OrphanWork(n))
    /\ WF_vars(StripTask) /\ WF_vars(\E p \in regenerating : Regenerate(p))
-----------------------------------------------------------------------------
Entry == [felt : UNION {ToSet(ItemFelts[i]) : i \in Items},
          label : (Items \X (Labels \cup {NoLabel, EmptyLabel})) \cup {NoLabel}]

\* The types of the variables (members of SenderDB, sender_db.h:335-376).
TypeOK ==
    /\ hashed_items \subseteq Items /\ item_count \in Int
    /\ DOMAIN bin_bundles = BundleIdx
    /\ \A b \in AllBundles :
         /\ b.cache_invalid \in BOOLEAN /\ b.stripped \in BOOLEAN
         /\ \A k \in DOMAIN b.bins : ToSet(b.bins[k]) \subseteq Entry
         /\ \A k \in BinIdx : ToSet(b.cache[k]) \subseteq Entry
    /\ stripped \in BOOLEAN
    /\ writer \in Threads \cup {NoThread} /\ readers \subseteq Threads
    /\ pc \in [Threads -> {"idle", "waiting", "dispatch", "join", "unwind", "reenter",
                           "strip", "q_wait", "q_locked", "q_stuck", "q_sent", "q_leave", "q_throw"}]
    /\ result \in [Threads -> {"none", "ok", "threw"}]
    /\ announced \in [Threads -> Nat]
    /\ ToSet(to_strip) \cup regenerating \subseteq BundleIdx \X Nat
    /\ torn \subseteq Items

\* The reader-writer lock: the writer is alone, every thread inside the
\* locked part of a call holds the lock, and no thread outside does.
LockExclusion ==
    /\ writer # NoThread => readers = {}
    /\ \A t \in Threads :
         /\ pc[t] \in {"dispatch", "join", "unwind", "strip"} <=> writer = t
         /\ pc[t] \in {"q_locked", "q_stuck", "q_sent"} <=> t \in readers

\* item_count_ follows hashed_items_ through repeated items, absent items and
\* calls that throw; Load compares the two (sender_db.cpp:1221-1228).
ItemCountMatches == ~stripped => item_count = Cardinality(hashed_items)

\* Between get_bin_bundle_count and get_cache_at a query sees one database:
\* no cache is stale, as many caches as packages announced, and the answers
\* of the last completed call.  After a call that threw half-way only a
\* clear() brings this back.
ReadersSeeCommitted ==
    torn = {} =>
        \A t \in readers :
            /\ ~StaleCache
            /\ Answers(bin_bundles) = committed
            /\ pc[t] = "q_sent" => announced[t] = BundleCount

\* The matching polynomial of a bin has one coefficient more than the bin has
\* items.  Queries carry powers up to max_items_per_bin, and BinBundle::load
\* refuses more coefficients than that (bin_bundle.cpp:1322-1329).
PolynomialsFit ==
    MaxBinSize > 1 =>
        \A b \in AllBundles : \A k \in DOMAIN b.bins : Len(b.bins[k]) + 1 <= MaxBinSize

\* The points newton_interpolate_polyn is given are distinct: no labeled bin
\* holds a felt twice (bin_bundle.cpp:552-572).
LabeledBinsDistinct ==
    Labeled => \A b \in AllBundles : \A k \in DOMAIN b.bins :
        \A m, n \in DOMAIN b.bins[k] : b.bins[k][m].felt = b.bins[k][n].felt => m = n

\* What get_label throws for an item of hashed_items_ that no bundle holds.
LogicError == "logic_error"

\* The label in the bundles at the first location of an item.
BundledLabel(i) ==
    LET loc == ItemLocs[i][1]
        set == bin_bundles[BundleOf(loc)]
        found == {j \in DOMAIN set : Holds(set[j].bins, Probe(i), BinOf(loc))}
        parts == ToSet(MultiGetLabel(set[Min(found)].bins, Probe(i), BinOf(loc)))
        clean == {l \in Labels : parts = {<<i, l>>}}
    IN  IF found = {} THEN LogicError
        ELSE IF clean = {} THEN Garbled ELSE CHOOSE l \in clean : TRUE

\* get_label: an invalid_argument (Absent) for an item not in hashed_items_
GetLabel(i) == IF i \in hashed_items THEN BundledLabel(i) ELSE Absent

\* The sender's own look-up, made on hashed_items_ and the bins, agrees with
\* what a receiver learns from the caches, whichever location the receiver
\* used.  A batch that throws can leave an item in the set and in no bundle
\* ("It shouldn't be possible", sender_db.cpp:1037): get_label then ends with
\* a logic_error, and this shows that it does so for no other item.
LookupAgreesWithQueries ==
    writer = NoThread /\ ~stripped => \A i \in Items \ torn : GetLabel(i) = committed[i]

\* sender_db.h:140-143: "If an item already exists in the database, its label
\* is overwritten with the new label": once the call has returned, a query
\* finds the label it passed.
LabelIsOverwritten ==
    [][\A t \in Threads : Finish(t) /\ call[t].op = "insert" =>
         \A j \in DOMAIN call[t].data :
            committed'[call[t].data[j].item] = call[t].data[j].label]_vars

AllCalls == UNION {ToSet(s[t]) : s \in Scripts, t \in Threads}

\* The calls are linearizable: each takes effect at the moment it unlocks.  A
\* query that met a stale cache has failed before it returns.
Abstract == INSTANCE AbstractDB WITH
    Calls <- AllCalls,
    db <- committed, frozen <- stripped,
    pending <- [t \in Threads |->
                  IF pc[t] = "q_throw" THEN [call[t] EXCEPT !.op = "failed"] ELSE call[t]]
ImplementsAbstractDB == Abstract!ASpec

\* Every call returns, unless strip() has put every pool thread to sleep in a
\* bundle with a stale cache, or a query asks for the reader lock a second
\* time behind a writer.  No other wait is for ever: not for the writer lock,
\* not for the tasks of a dispatch, not for a pool to be drained.
EveryCallReturns ==
    \A t \in Threads : pc[t] # "idle" ~> (pc[t] = "idle" \/ PoolStuck \/ LockStuck)
=============================================================================
