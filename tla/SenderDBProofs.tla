--------------------------- MODULE SenderDBProofs ---------------------------
(***************************************************************************)
(* Theorems about SenderDB for any number of threads, items, bundles and   *)
(* any finite sequence of calls: the lock discipline, the item count, the  *)
(* contents of the bundles, and what a query reads.                        *)
(***************************************************************************)
EXTENDS SenderDB, BundleSetProofs

(***************************************************************************)
(* The lock.  LockExclusion is inductive with the types of the lock and of *)
(* the program counters.                                                   *)
(***************************************************************************)
Locations == {"idle", "waiting", "dispatch", "join", "unwind", "reenter",
              "strip", "q_wait", "q_locked", "q_stuck", "q_sent", "q_leave", "q_throw"}

LockTypes ==
    /\ writer \in Threads \cup {NoThread}
    /\ readers \subseteq Threads
    /\ pc \in [Threads -> Locations]

LockInv == LockTypes /\ LockExclusion

LEMMA LockInvInit == Init => LockInv
BY SenderDBAssumption DEF Init, LockInv, LockTypes, Locations, LockExclusion

LEMMA LockInvNext == LockInv /\ [Next]_vars => LockInv'
<1> SUFFICES ASSUME LockInv, [Next]_vars PROVE LockInv'
    OBVIOUS
<1> USE SenderDBAssumption DEF LockInv, LockTypes, Locations, LockExclusion, LockFree, Goto, Return
<1>1. ASSUME NEW t \in Threads, Enter(t) PROVE LockInv'
    BY <1>1 DEF Enter
<1>2. ASSUME NEW t \in Threads, Lock(t) PROVE LockInv'
    BY <1>2 DEF Lock
<1>3. ASSUME NEW t \in Threads, Dispatch(t) PROVE LockInv'
    BY <1>3 DEF Dispatch
<1>4. ASSUME NEW t \in Threads, Join(t) PROVE LockInv'
    BY <1>4 DEF Join
<1>5. ASSUME NEW t \in Threads, Unwind(t) PROVE LockInv'
    BY <1>5 DEF Unwind
<1>6. ASSUME NEW t \in Threads, ConvertFails(t) PROVE LockInv'
    BY <1>6 DEF ConvertFails
<1>7. ASSUME NEW t \in Threads, Finish(t) PROVE LockInv'
    BY <1>7 DEF Finish
<1>8. ASSUME NEW t \in Threads, Clear(t) PROVE LockInv'
    BY <1>8 DEF Clear
<1>9. ASSUME NEW t \in Threads, SetDataInsert(t) PROVE LockInv'
    BY <1>9 DEF SetDataInsert
<1>10. ASSUME NEW t \in Threads, StripBegin(t) PROVE LockInv'
    BY <1>10 DEF StripBegin
<1>11. ASSUME NEW t \in Threads, StripEnd(t) PROVE LockInv'
    BY <1>11 DEF StripEnd
<1>12. ASSUME NEW t \in Threads, QueryLock(t) PROVE LockInv'
    BY <1>12 DEF QueryLock
<1>13. ASSUME NEW t \in Threads, QuerySend(t) PROVE LockInv'
    BY <1>13 DEF QuerySend
<1>14. ASSUME NEW t \in Threads, QueryEnd(t) PROVE LockInv'
    BY <1>14 DEF QueryEnd
<1>15. ASSUME NEW t \in Threads, NEW idx \in BundleIdx, Work(t, idx) PROVE LockInv'
    BY <1>15 DEF Work
<1>16. ASSUME NEW t \in Threads, QueryLeave(t) PROVE LockInv'
    BY <1>16 DEF QueryLeave
<1>17. ASSUME NEW t \in Threads, NEW idx \in BundleIdx, TaskLost(t, idx) PROVE LockInv'
    BY <1>17 DEF TaskLost
<1>18. ASSUME NEW n \in DOMAIN orphans, OrphanWork(n) \/ OrphanLost(n) PROVE LockInv'
    BY <1>18 DEF OrphanWork, OrphanLost
<1>19. CASE Quiet \/ UNCHANGED vars
    BY <1>19 DEF Quiet, vars
<1>20. ASSUME NEW t \in Threads, QueryBlocks(t) PROVE LockInv'
    BY <1>20 DEF QueryBlocks
<1>21. ASSUME StripTask \/ \E p \in regenerating : Regenerate(p) PROVE LockInv'
    BY <1>21 DEF StripTask, Regenerate
<1> QED
    BY <1>1, <1>2, <1>3, <1>4, <1>5, <1>6, <1>7, <1>8, <1>9, <1>10, <1>11, <1>12, <1>13,
       <1>14, <1>15, <1>16, <1>17, <1>18, <1>19, <1>20, <1>21 DEF Next, Step

\* The reader-writer lock excludes for any number of threads and any calls
\* (SenderDB::db_lock_, sender_db.h:329): a writer is alone, and exactly the
\* threads in the locked part of a call hold the lock.
THEOREM LockIsExclusive == Spec => []LockExclusion
<1>1. LockInv => LockExclusion
    BY DEF LockInv
<1> QED
    BY LockInvInit, LockInvNext, <1>1, PTL DEF Spec

(***************************************************************************)
(* The item count.  The predicates of std::remove_if keep one position per *)
(* item, so the number of positions is the number of items that enter or   *)
(* leave hashed_items_.  The invariant adds the types of the calls and     *)
(* that hashed_items_ is finite.                                           *)
(***************************************************************************)
CountInv ==
    /\ script \in [Threads -> Seq(Call)]
    /\ call \in [Threads -> Call \cup {NoCall}]
    /\ IsFiniteSet(hashed_items)
    /\ item_count \in Int
    /\ ItemCountMatches

\* As many items as positions, when no two positions name the same item.
LEMMA ItemsAtCardinality ==
    ASSUME NEW data \in Seq(Datum), NEW K \in SUBSET DOMAIN data,
           \A j, m \in K : data[j].item = data[m].item => j = m
    PROVE  /\ IsFiniteSet(ItemsAt(data, K))
           /\ Cardinality(K) \in Nat
           /\ Cardinality(ItemsAt(data, K)) = Cardinality(K)
<1> DEFINE f == [j \in K |-> data[j].item]
<1>1. IsFiniteSet(K) /\ Cardinality(K) \in Nat
    <2>1. IsFiniteSet(1 .. Len(data))
        BY FS_Interval
    <2> QED
        BY <2>1, FS_Subset, FS_CardinalityType
<1>2. f \in Bijection(K, ItemsAt(data, K))
    BY DEF Bijection, Injection, IsInjective, Surjection, ItemsAt
<1>3. ExistsBijection(K, ItemsAt(data, K))
    BY <1>2 DEF ExistsBijection
<1> QED
    BY <1>1, <1>3, FS_Bijection

LEMMA FirstOccurrencesDiffer ==
    ASSUME NEW data \in Seq(Datum), NEW j \in DOMAIN data, NEW m \in DOMAIN data,
           FirstOccurrence(data, j), FirstOccurrence(data, m), data[j].item = data[m].item
    PROVE  j = m
BY DEF FirstOccurrence

LEMMA CountAfterInsertion ==
    ASSUME NEW data \in Seq(Datum), IsFiniteSet(hashed_items), NEW K, K = NewPositions(data)
    PROVE  /\ IsFiniteSet(hashed_items \cup ItemsAt(data, K))
           /\ Cardinality(K) \in Nat
           /\ Cardinality(hashed_items \cup ItemsAt(data, K))
                = Cardinality(hashed_items) + Cardinality(K)
<1>1. K \in SUBSET DOMAIN data /\ \A j, m \in K : data[j].item = data[m].item => j = m
    BY FirstOccurrencesDiffer DEF NewPositions
<1>2. /\ IsFiniteSet(ItemsAt(data, K)) /\ Cardinality(K) \in Nat
      /\ Cardinality(ItemsAt(data, K)) = Cardinality(K)
    BY <1>1, ItemsAtCardinality
<1>3. hashed_items \cap ItemsAt(data, K) = {}
    BY DEF NewPositions, ItemsAt
<1>4. Cardinality(hashed_items) \in Nat /\ Cardinality({}) = 0
    BY FS_CardinalityType, FS_EmptySet
<1>5. /\ IsFiniteSet(hashed_items \cup ItemsAt(data, K))
      /\ Cardinality(hashed_items \cup ItemsAt(data, K)) =
           Cardinality(hashed_items) + Cardinality(ItemsAt(data, K))
             - Cardinality(hashed_items \cap ItemsAt(data, K))
    BY <1>2, FS_Union, Zenon
<1>6. Cardinality(hashed_items \cap ItemsAt(data, K)) = 0
    BY <1>3, <1>4, Zenon
<1> QED
    BY <1>2, <1>4, <1>5, <1>6

LEMMA CountAfterRemoval ==
    ASSUME NEW data \in Seq(Datum), IsFiniteSet(hashed_items), NEW K, K = PresentPositions(data)
    PROVE  /\ IsFiniteSet(hashed_items \ ItemsAt(data, K))
           /\ Cardinality(K) \in Nat
           /\ Cardinality(hashed_items \ ItemsAt(data, K))
                = Cardinality(hashed_items) - Cardinality(K)
<1>1. K \in SUBSET DOMAIN data /\ \A j, m \in K : data[j].item = data[m].item => j = m
    BY FirstOccurrencesDiffer DEF PresentPositions
<1>2. /\ IsFiniteSet(ItemsAt(data, K)) /\ Cardinality(K) \in Nat
      /\ Cardinality(ItemsAt(data, K)) = Cardinality(K)
    BY <1>1, ItemsAtCardinality
<1>3. hashed_items \cap ItemsAt(data, K) = ItemsAt(data, K)
    BY DEF PresentPositions, ItemsAt
<1>4. Cardinality(hashed_items) \in Nat
    BY FS_CardinalityType
<1>5. /\ IsFiniteSet(hashed_items \ ItemsAt(data, K))
      /\ Cardinality(hashed_items \ ItemsAt(data, K)) =
           Cardinality(hashed_items) - Cardinality(hashed_items \cap ItemsAt(data, K))
    BY FS_Difference, Zenon
<1> QED
    BY <1>2, <1>3, <1>4, <1>5

LEMMA CountInvInit == Init => CountInv
BY ScriptsAssumption, FS_EmptySet DEF Init, CountInv, ItemCountMatches

LEMMA CountInvNext == CountInv /\ [Next]_vars => CountInv'
<1> SUFFICES ASSUME CountInv, [Next]_vars PROVE CountInv'
    OBVIOUS
<1> USE DEF CountInv, ItemCountMatches
<1> DEFINE calls == <<script, call>>
           counts == <<hashed_items, item_count, stripped>>
<1>1. ASSUME NEW t \in Threads, Enter(t) PROVE CountInv'
    <2>1. Head(script[t]) \in Call /\ Tail(script[t]) \in Seq(Call)
        BY <1>1 DEF Enter
    <2>2. script' \in [Threads -> Seq(Call)] /\ call' \in [Threads -> Call \cup {NoCall}]
        BY <1>1, <2>1 DEF Enter, Return
    <2> QED
        BY <1>1, <2>2 DEF Enter, dbVars
<1>2. ASSUME NEW t \in Threads, Lock(t) PROVE CountInv'
    <2>1. call[t].data \in Seq(Datum)
        BY <1>2 DEF Lock, Call, NoCall
    <2> DEFINE new == NewPositions(call[t].data)
               old == PresentPositions(call[t].data)
    <2>2. CASE call[t].op = "insert"
        <3>1. /\ IsFiniteSet(hashed_items \cup ItemsAt(call[t].data, new))
              /\ Cardinality(new) \in Nat
              /\ Cardinality(hashed_items \cup ItemsAt(call[t].data, new))
                   = Cardinality(hashed_items) + Cardinality(new)
            BY <2>1, CountAfterInsertion, Zenon
        <3>2. /\ hashed_items' = hashed_items \cup ItemsAt(call[t].data, new)
              /\ item_count' = item_count + Cardinality(new)
            BY <1>2, <2>2 DEF Lock
        <3> QED
            BY <1>2, <3>1, <3>2 DEF Lock
    <2>3. CASE call[t].op # "insert"
        <3>1. /\ IsFiniteSet(hashed_items \ ItemsAt(call[t].data, old))
              /\ Cardinality(old) \in Nat
              /\ Cardinality(hashed_items \ ItemsAt(call[t].data, old))
                   = Cardinality(hashed_items) - Cardinality(old)
            BY <2>1, CountAfterRemoval, Zenon
        <3>2. /\ hashed_items' = hashed_items \ ItemsAt(call[t].data, old)
              /\ item_count' = item_count - Cardinality(old)
            BY <1>2, <2>3 DEF Lock
        <3> QED
            BY <1>2, <3>1, <3>2 DEF Lock
    <2> QED
        BY <2>2, <2>3
<1>3. ASSUME NEW t \in Threads, Clear(t) PROVE CountInv'
    <2>1. call' \in [Threads -> Call \cup {NoCall}]
        <3>1. CASE call[t].op = "clear"
            BY <1>3, <3>1 DEF Clear, Return
        <3>2. CASE call[t].op = "set_data"
            <4>1. call[t] \in Call
                BY <3>2 DEF NoCall
            <4>2. [op |-> "insert", data |-> call[t].data] \in Call
                BY <4>1 DEF Call
            <4> QED
                BY <1>3, <3>2, <4>2 DEF Clear
        <3> QED
            BY <1>3, <3>1, <3>2 DEF Clear
    <2> QED
        BY <1>3, <2>1, FS_EmptySet DEF Clear
<1>4. ASSUME NEW t \in Threads, StripBegin(t) PROVE CountInv'
    BY <1>4, FS_EmptySet DEF StripBegin
<1>5. ASSUME NEW t \in Threads,
             Unwind(t) \/ Finish(t) \/ StripEnd(t) \/ QueryLeave(t) \/ SetDataInsert(t)
      PROVE  CountInv'
    BY <1>5 DEF Unwind, Finish, StripEnd, QueryLeave, SetDataInsert, Return, dbVars
<1>6. ASSUME NEW t \in Threads,
             \/ Dispatch(t) \/ Join(t) \/ ConvertFails(t) \/ QueryLock(t) \/ QuerySend(t)
             \/ QueryBlocks(t) \/ QueryEnd(t) \/ \E idx \in BundleIdx : Work(t, idx) \/ TaskLost(t, idx)
      PROVE  CountInv'
    <2>1. UNCHANGED calls /\ UNCHANGED counts
        BY <1>6 DEF Dispatch, Join, ConvertFails, QueryLock, QuerySend, QueryBlocks, QueryEnd, Work,
            TaskLost, dbVars
    <2> QED
        BY <2>1
<1>7. ASSUME NEW n \in DOMAIN orphans, OrphanWork(n) \/ OrphanLost(n) PROVE CountInv'
    <2>1. UNCHANGED calls /\ UNCHANGED counts
        BY <1>7 DEF OrphanWork, OrphanLost, dbVars
    <2> QED
        BY <2>1
<1>8. CASE Quiet \/ UNCHANGED vars
    BY <1>8 DEF Quiet, vars
<1>9. ASSUME StripTask \/ \E p \in regenerating : Regenerate(p) PROVE CountInv'
    <2>1. UNCHANGED calls /\ UNCHANGED counts
        BY <1>9 DEF StripTask, Regenerate
    <2> QED
        BY <2>1
<1> QED
    BY <1>1, <1>2, <1>3, <1>4, <1>5, <1>6, <1>7, <1>8, <1>9 DEF Next, Step

\* item_count_ is the number of elements of hashed_items_ as long as the
\* database is not stripped, whatever the calls name and however they end
\* (the comparison Load makes, sender_db.cpp:1221-1228).
THEOREM ItemCountIsExact == Spec => []ItemCountMatches
<1>1. CountInv => ItemCountMatches
    BY DEF CountInv
<1> QED
    BY CountInvInit, CountInvNext, <1>1, PTL DEF Spec
-----------------------------------------------------------------------------
(***************************************************************************)
(* The types.  A task is a list of entries made from the items of a call   *)
(* and what remove_if leaves of their labels.                              *)
(***************************************************************************)
Passed == [item : Items, label : Labels \cup {NoLabel} \cup (IF Labeled THEN {EmptyLabel} ELSE {})]
Dispatches == [op : {"insert", "overwrite", "remove"}, data : Seq(Passed)]
Task == [status : {"none", "running", "ok", "threw"},
         op : {"none", "insert", "overwrite", "remove"}, todo : Seq(Entries(Entry))]
Orphan == {o \in [idx : BundleIdx, task : Task] : o.task.todo # <<>>}

LEMMA AlgebraizeType == ASSUME NEW d \in Passed PROVE Algebraize(d) \in Seq(Entry)
<1>1. d.item \in Items /\ d.label \in Labels \cup {NoLabel, EmptyLabel}
    BY DEF Passed
<1>2. ASSUME NEW j \in 1 .. FeltsPerItem
      PROVE  [felt |-> ItemFelts[d.item][j],
              label |-> IF Labeled THEN <<d.item, d.label>> ELSE NoLabel] \in Entry
    <2>1. ItemFelts[d.item][j] \in ToSet(ItemFelts[d.item])
        BY <1>1, BundleSetAssumption
    <2>2. ItemFelts[d.item][j] \in UNION {ToSet(ItemFelts[i]) : i \in Items}
        BY <1>1, <2>1
    <2>3. (IF Labeled THEN <<d.item, d.label>> ELSE NoLabel)
            \in (Items \X (Labels \cup {NoLabel, EmptyLabel})) \cup {NoLabel}
        BY <1>1
    <2> QED
        BY <2>2, <2>3 DEF Entry
<1>3. Algebraize(d) \in [1 .. FeltsPerItem -> Entry]
    BY <1>2 DEF Algebraize
<1> QED
    BY <1>3, BundleSetAssumption, SeqDef

LEMMA PassedFelts == \A d \in Passed : d.item \in Items /\ Algebraize(d) \in Seq(Entry)
BY AlgebraizeType DEF Passed

\* remove_if moves labels, and empties one only in a labeled database.
LEMMA RemoveIfType ==
    ASSUME NEW data \in Seq(Datum), NEW K \in SUBSET DOMAIN data
    PROVE  /\ RemoveIf(data, K) \in Seq(Passed) /\ Len(RemoveIf(data, K)) = Len(data)
           /\ Cardinality(K) \in 0 .. Len(data)
<1>1. /\ Len(data) \in Nat /\ DOMAIN data = 1 .. Len(data)
      /\ \A j \in DOMAIN data : data[j] \in Datum
    OBVIOUS
<1>2. Cardinality(K) \in 0 .. Len(data)
    <2>1. IsFiniteSet(1 .. Len(data)) /\ Cardinality(1 .. Len(data)) = Len(data)
        <3> DEFINE l == Len(data)
        <3>1. l \in Nat
            BY <1>1
        <3> HIDE DEF l
        <3>2. 1 \in Int /\ l \in Int
            BY <3>1
        <3>3. IsFiniteSet(1 .. l) /\ Cardinality(1 .. l) = IF 1 > l THEN 0 ELSE l - 1 + 1
            BY <3>2, FS_Interval, Zenon
        <3>4. Cardinality(1 .. l) = l
            BY <3>1, <3>3
        <3> QED
            BY <3>3, <3>4, Zenon DEF l
    <2>2. IsFiniteSet(K) /\ Cardinality(K) <= Cardinality(1 .. Len(data))
        BY <1>1, <2>1, FS_Subset, Zenon
    <2> QED
        BY <1>1, <2>1, <2>2, FS_CardinalityType
<1>3. \A m \in 1 .. Cardinality(K) : Nth(K, m) \in K
    <2>1. K \in SUBSET (0 .. Len(data))
        BY <1>1
    <2> QED
        BY <1>1, <2>1, NthIsIn
<1>4. ASSUME NEW d \in Datum PROVE d \in Passed /\ (Labeled => [d EXCEPT !.label = EmptyLabel] \in Passed)
    BY DEF Datum, Passed
<1>5. ASSUME NEW m \in DOMAIN data
      PROVE  (IF m <= Cardinality(K) THEN data[Nth(K, m)]
              ELSE IF m \in K /\ Labeled THEN [data[m] EXCEPT !.label = EmptyLabel]
              ELSE data[m]) \in Passed
    <2>1. data[m] \in Datum
        BY <1>1
    <2>2. m <= Cardinality(K) => data[Nth(K, m)] \in Datum
        BY <1>1, <1>2, <1>3
    <2>3. /\ data[m] \in Passed /\ (Labeled => [data[m] EXCEPT !.label = EmptyLabel] \in Passed)
          /\ m <= Cardinality(K) => data[Nth(K, m)] \in Passed
        BY <1>4, <2>1, <2>2, Zenon
    <2> QED
        BY <2>3, Zenon
<1>6. RemoveIf(data, K) \in [1 .. Len(data) -> Passed]
    BY <1>1, <1>5 DEF RemoveIf
<1>7. RemoveIf(data, K) \in Seq(Passed)
    BY <1>1, <1>6, SeqDef
<1>8. Len(RemoveIf(data, K)) = Len(data)
    BY <1>1, <1>6, <1>7
<1> QED
    BY <1>2, <1>7, <1>8

LEMMA PlanType ==
    ASSUME NEW data \in Seq(Datum), NEW K \in SUBSET DOMAIN data
    PROVE  InsertPlan(data, K) \in Seq(Dispatches) /\ RemovePlan(data, K) \in Seq(Dispatches)
<1> DEFINE moved == RemoveIf(data, K)
           n == Cardinality(K)
<1>1. moved \in Seq(Passed) /\ n \in 0 .. Len(moved)
    BY RemoveIfType
<1>2. RemovePlan(data, K) \in Seq(Dispatches)
    BY <1>1 DEF RemovePlan, Dispatches
<1> HIDE DEF moved, n
<1>3. Front_(moved, n) \in Seq(Passed)
    BY <1>1 DEF Front_
<1>4. Back_(moved, n) \in Seq(Passed)
    BY <1>1 DEF Back_
<1>5. ASSUME NEW op \in {"insert", "overwrite"}, NEW part \in Seq(Passed)
      PROVE  <<[op |-> op, data |-> part]>> \in Seq(Dispatches)
             /\ Step_(op, part) \in Seq(Dispatches)
    <2>1. [op |-> op, data |-> part] \in Dispatches
        BY DEF Dispatches
    <2> HIDE DEF Dispatches
    <2>2. <<[op |-> op, data |-> part]>> \in Seq(Dispatches)
        BY <2>1
    <2>3. <<>> \in Seq(Dispatches)
        OBVIOUS
    <2> QED
        BY <2>2, <2>3 DEF Step_
<1>6. Step_("overwrite", Back_(moved, n)) \o Step_("insert", Front_(moved, n)) \in Seq(Dispatches)
    <2>1. Step_("overwrite", Back_(moved, n)) \in Seq(Dispatches)
        BY <1>4, <1>5
    <2>2. Step_("insert", Front_(moved, n)) \in Seq(Dispatches)
        BY <1>3, <1>5
    <2> QED
        BY <2>1, <2>2
<1>7. InsertPlan(data, K) = IF Labeled
        THEN Step_("overwrite", Back_(moved, n)) \o Step_("insert", Front_(moved, n))
        ELSE <<[op |-> "insert", data |-> Front_(moved, n)]>>
    BY Zenon DEF InsertPlan, moved, n
<1>8. InsertPlan(data, K) \in Seq(Dispatches)
    BY <1>3, <1>5, <1>6, <1>7
<1> QED
    BY <1>2, <1>8

-----------------------------------------------------------------------------
BinsInv ==
    /\ DOMAIN bin_bundles = BundleIdx
    /\ \A idx \in BundleIdx : GoodSet(bin_bundles[idx], Entry, stripped, TRUE)

TasksInv ==
    /\ tasks \in [Threads -> [BundleIdx -> Task]]
    /\ \A t \in Threads : \A idx \in BundleIdx :
         tasks[t][idx].status = "running" => tasks[t][idx].todo # <<>>

OrphansInv == orphans \in Seq(Orphan)

CallerTypes ==
    /\ hashed_items \subseteq Items /\ stripped \in BOOLEAN
    /\ plan \in [Threads -> Seq(Dispatches)]
    /\ result \in [Threads -> {"none", "ok", "threw"}]
    /\ announced \in [Threads -> Nat]

\* strip() sets stripped_ before it touches the bundles, and only clear(),
\* which needs the lock, resets it.  Nobody else has tasks that strip bundles.
StripGoesOn ==
    /\ \A t \in Threads : pc[t] = "strip" => stripped
    /\ to_strip # <<>> \/ regenerating # {} => \E t \in Threads : pc[t] = "strip"

StripTypes ==
    /\ to_strip \in Seq(BundleIdx \X Nat) /\ regenerating \subseteq BundleIdx \X Nat
    /\ torn \subseteq Items

TypesInv == BinsInv /\ StripGoesOn /\ StripTypes /\ TasksInv /\ OrphansInv /\ CallerTypes

LEMMA TypesInvInit == Init => TypesInv
<1> SUFFICES ASSUME Init PROVE TypesInv
    OBVIOUS
<1>1. BinsInv
    BY EmptySetIsGood DEF Init, BinsInv, EmptyDB
<1>2. TasksInv
    BY DEF Init, TasksInv, NoTasks, NoTask, Task
<1>3. OrphansInv
    BY DEF Init, OrphansInv
<1>4. CallerTypes
    <2>1. stripped \in BOOLEAN
        BY Zenon DEF Init
    <2>2. /\ hashed_items \subseteq Items
          /\ plan \in [Threads -> Seq(Dispatches)]
          /\ result \in [Threads -> {"none", "ok", "threw"}]
          /\ announced \in [Threads -> Nat]
        BY DEF Init
    <2> QED
        BY <2>1, <2>2, Zenon DEF CallerTypes
<1>5. StripGoesOn /\ StripTypes
    BY DEF Init, StripGoesOn, StripTypes
<1> QED
    BY <1>1, <1>2, <1>3, <1>4, <1>5 DEF TypesInv

LEMMA StripGoesOnNext == LockInv /\ StripGoesOn /\ [Next]_vars => StripGoesOn'
<1> SUFFICES ASSUME LockInv, StripGoesOn, [Next]_vars PROVE StripGoesOn'
    OBVIOUS
<1> USE DEF LockInv, LockTypes, StripGoesOn, stripVars
<1>1. ASSUME UNCHANGED <<stripped, stripVars>>, NEW t \in Threads, NEW l,
             pc[t] # "strip", l # "strip", Goto(t, l)
      PROVE  StripGoesOn'
    BY <1>1 DEF Goto
<1>2. ASSUME UNCHANGED <<stripped, stripVars, pc>> PROVE StripGoesOn'
    BY <1>2
<1>3. ASSUME NEW t \in Threads, StripBegin(t) PROVE StripGoesOn'
    BY <1>3 DEF StripBegin, Goto
<1>4. ASSUME NEW t \in Threads, Clear(t) PROVE StripGoesOn'
    <2>1. \A q \in Threads : pc[q] # "strip"
        BY <1>4, SenderDBAssumption DEF Clear, LockFree, LockExclusion
    <2> QED
        BY <1>4, <2>1 DEF Clear, Goto, Return
<1>5. ASSUME NEW t \in Threads,
             \/ Lock(t) \/ Dispatch(t) \/ Join(t) \/ Unwind(t) \/ ConvertFails(t) \/ Finish(t)
             \/ QueryLock(t) \/ QuerySend(t) \/ QueryBlocks(t) \/ QueryEnd(t) \/ QueryLeave(t)
      PROVE  StripGoesOn'
    BY <1>1, <1>5 DEF Lock, Dispatch, Join, Unwind, ConvertFails, Finish, QueryLock,
        QuerySend, QueryBlocks, QueryEnd, QueryLeave, Return, dbVars
<1>6. ASSUME NEW t \in Threads, Enter(t) \/ SetDataInsert(t) PROVE StripGoesOn'
    BY <1>1, <1>6 DEF Enter, SetDataInsert, Return, dbVars
<1>7. ASSUME NEW t \in Threads, NEW idx \in BundleIdx, Work(t, idx) \/ TaskLost(t, idx)
      PROVE  StripGoesOn'
    BY <1>2, <1>7 DEF Work, TaskLost, dbVars
<1>8. ASSUME NEW n \in DOMAIN orphans, OrphanWork(n) \/ OrphanLost(n) PROVE StripGoesOn'
    BY <1>2, <1>8 DEF OrphanWork, OrphanLost, dbVars
<1>9. CASE Quiet \/ UNCHANGED vars
    BY <1>2, <1>9 DEF Quiet, vars
<1>10. ASSUME NEW t \in Threads, StripEnd(t) PROVE StripGoesOn'
    BY <1>10 DEF StripEnd, Return, Goto, dbVars
<1>11. ASSUME StripTask \/ \E p \in regenerating : Regenerate(p) PROVE StripGoesOn'
    BY <1>11 DEF StripTask, Regenerate
<1> QED
    BY <1>3, <1>4, <1>5, <1>6, <1>7, <1>8, <1>9, <1>10, <1>11 DEF Next, Step

LEMMA PlacesType == ASSUME BinsInv PROVE Places \in Seq(BundleIdx \X Nat)
<1> DEFINE places == [k \in 1 .. BundleIdxCount |-> [j \in DOMAIN bin_bundles[k - 1] |-> <<k - 1, j>>]]
<1>1. ASSUME NEW k \in 1 .. BundleIdxCount
      PROVE  [j \in DOMAIN bin_bundles[k - 1] |-> <<k - 1, j>>] \in Seq(BundleIdx \X Nat)
    <2>1. k - 1 \in BundleIdx
        BY BundleSetAssumption DEF BundleIdx
    <2>2. Len(bin_bundles[k - 1]) \in Nat /\ DOMAIN bin_bundles[k - 1] = 1 .. Len(bin_bundles[k - 1])
        BY <2>1, IsSeqFacts DEF BinsInv, GoodSet
    <2>3. [j \in DOMAIN bin_bundles[k - 1] |-> <<k - 1, j>>]
            \in [1 .. Len(bin_bundles[k - 1]) -> BundleIdx \X Nat]
        BY <2>1, <2>2
    <2> QED
        BY <2>2, <2>3, SeqDef
<1>2. places \in [1 .. BundleIdxCount -> Seq(BundleIdx \X Nat)]
    BY <1>1
<1> HIDE DEF places
<1>3. places \in Seq(Seq(BundleIdx \X Nat))
    BY <1>2, BundleSetAssumption, SeqDef
<1>4. FlattenSeq(places) \in Seq(BundleIdx \X Nat)
    BY <1>3, FlattenIn, Zenon
<1> QED
    BY <1>4, Zenon DEF Places, places

LEMMA StripTypesNext == CountInv /\ TypesInv /\ [Next]_vars => StripTypes'
<1> SUFFICES ASSUME CountInv, TypesInv, [Next]_vars PROVE StripTypes'
    OBVIOUS
<1>0. StripTypes /\ BinsInv
    BY DEF TypesInv
<1> USE DEF stripVars
<1>1. ASSUME NEW t \in Threads, StripBegin(t) PROVE StripTypes'
    BY <1>0, <1>1, PlacesType DEF StripBegin, StripTypes
<1>2. CASE StripTask
    <2>1. Head(to_strip) \in BundleIdx \X Nat /\ Tail(to_strip) \in Seq(BundleIdx \X Nat)
        BY <1>0, <1>2, RestOf DEF StripTask, StripTypes
    <2> QED
        BY <1>0, <1>2, <2>1 DEF StripTask, StripTypes
<1>3. ASSUME NEW p \in regenerating, Regenerate(p) PROVE StripTypes'
    BY <1>0, <1>3 DEF Regenerate, StripTypes
<1>4. ASSUME UNCHANGED stripVars, torn' \subseteq Items PROVE StripTypes'
    BY <1>0, <1>4 DEF StripTypes
<1>5. ASSUME NEW t \in Threads, Unwind(t) \/ Finish(t) PROVE StripTypes'
    <2>1. call[t].data \in Seq(Datum)
        <3>1. call[t] \in Call \cup {NoCall}
            BY DEF CountInv
        <3>2. \A c \in Call : c.data \in Seq(Datum)
            BY DEF Call
        <3>3. NoCall.data \in Seq(Datum)
            BY DEF NoCall
        <3> QED
            BY <3>1, <3>2, <3>3, Zenon
    <2>2. Named(call[t].data) \subseteq Items
        <3> DEFINE data == call[t].data
        <3> HIDE DEF data
        <3>1. data \in Seq(Datum)
            BY <2>1 DEF data
        <3>2. \A j \in DOMAIN data : data[j] \in Datum
            BY <3>1
        <3>3. Named(data) \subseteq Items
            BY <3>2 DEF Named, ItemsAt, Datum
        <3> QED
            BY <3>3 DEF data
    <2>3. torn' \subseteq torn \cup Named(call[t].data) /\ UNCHANGED stripVars
        BY <1>5 DEF Unwind, Finish
    <2> QED
        BY <1>0, <1>4, <2>2, <2>3 DEF StripTypes
<1>6. ASSUME NEW t \in Threads, Clear(t) PROVE StripTypes'
    BY <1>0, <1>4, <1>6 DEF Clear, StripTypes
<1>7. ASSUME UNCHANGED <<stripVars, torn>> PROVE StripTypes'
    BY <1>0, <1>7 DEF StripTypes
<1>8. ASSUME NEW t \in Threads,
             \/ Enter(t) \/ Lock(t) \/ Dispatch(t) \/ Join(t) \/ ConvertFails(t)
             \/ SetDataInsert(t) \/ StripEnd(t) \/ QueryLock(t) \/ QuerySend(t) \/ QueryBlocks(t)
             \/ QueryEnd(t) \/ QueryLeave(t) \/ \E idx \in BundleIdx : Work(t, idx) \/ TaskLost(t, idx)
      PROVE  StripTypes'
    BY <1>7, <1>8 DEF Enter, Lock, Dispatch, Join, ConvertFails, SetDataInsert, StripEnd,
        QueryLock, QuerySend, QueryBlocks, QueryEnd, QueryLeave, Work, TaskLost
<1>9. ASSUME NEW n \in DOMAIN orphans, OrphanWork(n) \/ OrphanLost(n) PROVE StripTypes'
    BY <1>7, <1>9 DEF OrphanWork, OrphanLost
<1>10. CASE Quiet \/ UNCHANGED vars
    BY <1>7, <1>10 DEF Quiet, vars
<1> QED
    BY <1>1, <1>2, <1>3, <1>5, <1>6, <1>8, <1>9, <1>10 DEF Next, Step

LEMMA OneItemKeepsBins ==
    ASSUME BinsInv, NEW idx, NEW op, NEW w \in Entries(Entry), UNCHANGED stripped,
           bin_bundles' = [bin_bundles EXCEPT ![idx] = WorkItem(bin_bundles[idx], op, w).set]
    PROVE  BinsInv'
<1> DEFINE new == WorkItem(bin_bundles[idx], op, w).set
<1>1. bin_bundles' = [bin_bundles EXCEPT ![idx] = new]
    OBVIOUS
<1>2. idx \in BundleIdx => GoodSet(new, Entry, stripped, TRUE)
    BY WorkItemIsGood, Zenon DEF BinsInv
<1> HIDE DEF new
<1> QED
    BY <1>1, <1>2 DEF BinsInv

LEMMA BinsInvNext == TypesInv /\ [Next]_vars => BinsInv'
<1> SUFFICES ASSUME TypesInv, [Next]_vars PROVE BinsInv'
    OBVIOUS
<1>0. BinsInv
    BY DEF TypesInv
<1>1. ASSUME NEW t \in Threads, NEW idx \in BundleIdx, Work(t, idx) PROVE BinsInv'
    <2>1. Head(tasks[t][idx].todo) \in Entries(Entry)
        BY <1>1 DEF TypesInv, TasksInv, Task, Work
    <2> QED
        BY <1>0, <1>1, <2>1, OneItemKeepsBins, Zenon DEF Work
<1>2. ASSUME NEW n \in DOMAIN orphans, OrphanWork(n) PROVE BinsInv'
    <2>1. orphans[n] \in Orphan
        BY DEF TypesInv, OrphansInv
    <2>2. orphans[n].task.todo \in Seq(Entries(Entry)) /\ orphans[n].task.todo # <<>>
        BY <2>1 DEF Orphan, Task
    <2>3. Head(orphans[n].task.todo) \in Entries(Entry)
        BY <2>2, RestOf, Zenon
    <2> QED
        BY <1>0, <1>2, <2>3, OneItemKeepsBins, Zenon DEF OrphanWork
<1>3. ASSUME NEW t \in Threads, Finish(t) PROVE BinsInv'
    <2>1. bin_bundles' = GenerateCaches(bin_bundles)
        BY <1>3 DEF Finish
    <2>2. ASSUME NEW idx \in BundleIdx PROVE GoodSet(bin_bundles'[idx], Entry, stripped, TRUE)
        <3>1. bin_bundles'[idx] = [j \in DOMAIN bin_bundles[idx] |-> RegenCache(bin_bundles[idx][j])]
            BY <2>1 DEF GenerateCaches
        <3>2. GoodSet(bin_bundles[idx], Entry, stripped, TRUE)
            BY <1>0 DEF BinsInv
        <3>3. \A j \in DOMAIN bin_bundles[idx] : GoodBundle(bin_bundles'[idx][j], Entry, stripped, TRUE)
          <4>1. ASSUME NEW j \in DOMAIN bin_bundles[idx]
                PROVE  GoodBundle(RegenCache(bin_bundles[idx][j]), Entry, stripped, TRUE)
              <5>1. GoodBundle(bin_bundles[idx][j], Entry, stripped, TRUE)
                  BY <3>2, Zenon DEF GoodSet
              <5> QED
                  BY <5>1, RegenIsGood, Zenon
          <4> QED
              BY <3>1, <4>1
        <3> QED
            BY <3>1, <3>2, <3>3, MappedSet
    <2>3. UNCHANGED stripped
        BY <1>3 DEF Finish
    <2> QED
        BY <2>1, <2>2, <2>3 DEF BinsInv, GenerateCaches
<1>4. ASSUME StripTask \/ \E p \in regenerating : Regenerate(p) PROVE BinsInv'
    <2>1. stripped /\ UNCHANGED stripped
        BY <1>4 DEF TypesInv, StripGoesOn, StripTask, Regenerate
    <2>2. PICK p \in BundleIdx \X Nat : bin_bundles' \in {bin_bundles, StripAt(p)}
        <3>1. to_strip # <<>> => Head(to_strip) \in BundleIdx \X Nat
            BY RestOf DEF TypesInv, StripTypes
        <3>2. CASE StripTask
            BY <3>1, <3>2 DEF StripTask
        <3>3. ASSUME NEW q \in regenerating, Regenerate(q) PROVE \E p \in BundleIdx \X Nat : bin_bundles' = StripAt(p)
            BY <3>3 DEF Regenerate, TypesInv, StripTypes
        <3> QED
            BY <1>4, <3>2, <3>3
    <2>a. p[1] \in BundleIdx
        OBVIOUS
    <2>3. CASE bin_bundles' = [bin_bundles EXCEPT ![p[1]][p[2]] = StripBundle(@)]
        <3> DEFINE set == bin_bundles[p[1]]
                   new == [set EXCEPT ![p[2]] = StripBundle(@)]
        <3>1. GoodSet(set, Entry, stripped, TRUE)
            BY <1>0, <2>a DEF BinsInv
        <3>2. bin_bundles' = [bin_bundles EXCEPT ![p[1]] = new]
            BY <2>3
        <3> HIDE DEF set
        <3>3. ASSUME NEW j \in DOMAIN set PROVE GoodBundle(new[j], Entry, stripped, TRUE)
            <4>1. GoodBundle(set[j], Entry, stripped, TRUE)
                BY <3>1, Zenon DEF GoodSet
            <4>2. GoodBundle(StripBundle(set[j]), Entry, stripped, TRUE)
                BY <2>1, <4>1, StripIsGood, Zenon
            <4>3. new[j] = IF j = p[2] THEN StripBundle(set[j]) ELSE set[j]
                OBVIOUS
            <4> QED
                BY <4>1, <4>2, <4>3, Zenon
        <3>4. DOMAIN new = DOMAIN set /\ new = [j \in DOMAIN set |-> new[j]]
            OBVIOUS
        <3> HIDE DEF new
        <3>5. GoodSet(new, Entry, stripped, TRUE)
            BY <3>1, <3>3, <3>4, MappedSet
        <3> QED
            BY <1>0, <2>1, <3>2, <3>5 DEF BinsInv
    <2>4. CASE bin_bundles' = bin_bundles
        BY <1>0, <2>1, <2>4 DEF BinsInv
    <2> QED
        BY <2>2, <2>3, <2>4 DEF StripAt
<1>5. ASSUME NEW t \in Threads, Clear(t) PROVE BinsInv'
    BY <1>5, EmptySetIsGood DEF Clear, BinsInv, EmptyDB
<1>6. ASSUME NEW t \in Threads,
             \/ Enter(t) \/ Lock(t) \/ Dispatch(t) \/ Join(t) \/ Unwind(t) \/ ConvertFails(t)
             \/ SetDataInsert(t) \/ StripEnd(t) \/ QueryLock(t) \/ QuerySend(t) \/ QueryBlocks(t)
             \/ QueryEnd(t) \/ QueryLeave(t) \/ \E idx \in BundleIdx : TaskLost(t, idx)
      PROVE  BinsInv'
    <2>1. UNCHANGED <<bin_bundles, stripped>>
        BY <1>6 DEF Enter, Lock, Dispatch, Join, Unwind, ConvertFails, SetDataInsert, StripEnd,
            QueryLock, QuerySend, QueryBlocks, QueryEnd, QueryLeave, TaskLost, dbVars
    <2> QED
        BY <1>0, <2>1 DEF BinsInv
<1>7. ASSUME NEW n \in DOMAIN orphans, OrphanLost(n) PROVE BinsInv'
    BY <1>0, <1>7 DEF OrphanLost, dbVars, BinsInv
<1>8. CASE Quiet \/ UNCHANGED vars
    <2>1. UNCHANGED <<bin_bundles, stripped>>
        BY <1>8 DEF Quiet, vars
    <2> QED
        BY <1>0, <2>1 DEF BinsInv
<1>9. ASSUME NEW t \in Threads, StripBegin(t) PROVE BinsInv'
    <2>1. bin_bundles' = bin_bundles /\ stripped' = TRUE
        BY <1>9 DEF StripBegin
    <2>2. ASSUME NEW b, GoodBundle(b, Entry, stripped, TRUE) PROVE GoodBundle(b, Entry, TRUE, TRUE)
        BY <2>2 DEF GoodBundle
    <2>3. ASSUME NEW set, GoodSet(set, Entry, stripped, TRUE) PROVE GoodSet(set, Entry, TRUE, TRUE)
        BY <2>2, <2>3 DEF GoodSet
    <2> QED
        BY <1>0, <2>1, <2>3 DEF BinsInv
<1> QED
    BY <1>1, <1>2, <1>3, <1>4, <1>5, <1>6, <1>7, <1>8, <1>9 DEF Next, Step

LEMMA TasksInvNext == TypesInv /\ [Next]_vars => TasksInv'
<1> SUFFICES ASSUME TypesInv, [Next]_vars PROVE TasksInv'
    OBVIOUS
<1>0. TasksInv /\ plan \in [Threads -> Seq(Dispatches)]
    BY DEF TypesInv, CallerTypes
<1>a. NoTask \in Task /\ NoTask.status # "running"
    BY DEF NoTask, Task
<1>1. ASSUME NEW t \in Threads, NEW idx \in BundleIdx, NEW new \in Task,
             new.status = "running" => new.todo # <<>>,
             tasks' = [tasks EXCEPT ![t][idx] = new]
      PROVE  TasksInv'
    BY <1>0, <1>1 DEF TasksInv
<1>2. ASSUME NEW t \in Threads, NEW new \in [BundleIdx -> Task],
             \A idx \in BundleIdx : new[idx].status = "running" => new[idx].todo # <<>>,
             tasks' = [tasks EXCEPT ![t] = new]
      PROVE  TasksInv'
    BY <1>0, <1>2 DEF TasksInv
<1>3. ASSUME NEW t \in Threads, NEW idx \in BundleIdx, Work(t, idx) PROVE TasksInv'
    <2> DEFINE task == tasks[t][idx]
               threw == WorkItem(bin_bundles[idx], task.op, Head(task.todo)).threw
               new == [task EXCEPT !.todo = Tail(@),
                                   !.status = IF threw THEN "threw"
                                              ELSE IF Len(task.todo) = 1 THEN "ok" ELSE "running"]
    <2>1. task \in Task /\ task.todo \in Seq(Entries(Entry)) /\ task.todo # <<>>
        BY <1>0, <1>3 DEF TasksInv, Task, Work
    <2>2. tasks' = [tasks EXCEPT ![t][idx] = new]
        BY <1>3 DEF Work
    <2> HIDE DEF task, threw
    <2>3. /\ Tail(task.todo) \in Seq(Entries(Entry))
          /\ Len(task.todo) # 1 => Tail(task.todo) # <<>>
        BY <2>1, RestOf, Zenon
    <2>4. new \in Task /\ new.todo = Tail(task.todo) /\ (new.status = "running" => Len(task.todo) # 1)
        BY <2>1, <2>3 DEF Task
    <2> HIDE DEF new
    <2> QED
        BY <1>1, <2>2, <2>3, <2>4
<1>4. ASSUME NEW t \in Threads, NEW idx \in BundleIdx, TaskLost(t, idx) PROVE TasksInv'
    BY <1>1, <1>4, <1>a DEF TaskLost
<1>5. ASSUME NEW t \in Threads, Dispatch(t) PROVE TasksInv'
    <2> DEFINE todo(idx) == TaskOf(Head(plan[t]).data, idx)
               new == [idx \in BundleIdx |->
                         IF todo(idx) = <<>> THEN NoTask
                         ELSE [status |-> "running", op |-> Head(plan[t]).op, todo |-> todo(idx)]]
    <2>1. Head(plan[t]) \in Dispatches
        BY <1>0, <1>5 DEF Dispatch
    <2>2. Head(plan[t]).op \in {"insert", "overwrite", "remove"} /\ Head(plan[t]).data \in Seq(Passed)
        BY <2>1 DEF Dispatches
    <2>3. \A idx \in BundleIdx : todo(idx) \in Seq(Entries(Entry))
        BY <2>2, PassedFelts, TaskOfType, Zenon
    <2>4. tasks' = [tasks EXCEPT ![t] = new]
        BY <1>5, Zenon DEF Dispatch
    <2> HIDE DEF todo
    <2>5. ASSUME NEW idx \in BundleIdx
          PROVE  new[idx] \in Task /\ (new[idx].status = "running" => new[idx].todo # <<>>)
        <3>1. CASE todo(idx) = <<>>
            BY <1>a, <3>1
        <3>2. CASE todo(idx) # <<>>
            BY <2>2, <2>3, <3>2 DEF Task
        <3> QED
            BY <3>1, <3>2
    <2>6. new \in [BundleIdx -> Task]
        BY <2>5
    <2> HIDE DEF new
    <2> QED
        BY <1>2, <2>4, <2>5, <2>6
<1>6. ASSUME NEW t \in Threads, Join(t) \/ Unwind(t) PROVE TasksInv'
    <2>1. NoTasks \in [BundleIdx -> Task] /\ \A idx \in BundleIdx : NoTasks[idx].status # "running"
        BY <1>a DEF NoTasks
    <2>2. tasks' = [tasks EXCEPT ![t] = NoTasks] \/ tasks' = tasks
        BY <1>6 DEF Join, Unwind
    <2>3. CASE tasks' = tasks
        BY <1>0, <2>3 DEF TasksInv
    <2> QED
        BY <1>2, <2>1, <2>2, <2>3
<1>7. ASSUME UNCHANGED tasks PROVE TasksInv'
    BY <1>0, <1>7 DEF TasksInv
<1>8. ASSUME NEW t \in Threads,
             \/ Enter(t) \/ Lock(t) \/ ConvertFails(t) \/ Finish(t) \/ Clear(t) \/ SetDataInsert(t)
             \/ StripBegin(t) \/ StripEnd(t) \/ QueryLock(t) \/ QuerySend(t) \/ QueryBlocks(t)
             \/ QueryEnd(t) \/ QueryLeave(t)
      PROVE  TasksInv'
    BY <1>7, <1>8 DEF Enter, Lock, ConvertFails, Finish, Clear, SetDataInsert, StripBegin, StripEnd,
        QueryLock, QuerySend, QueryBlocks, QueryEnd, QueryLeave
<1>9. ASSUME NEW n \in DOMAIN orphans, OrphanWork(n) \/ OrphanLost(n) PROVE TasksInv'
    BY <1>7, <1>9 DEF OrphanWork, OrphanLost
<1>10. CASE Quiet \/ UNCHANGED vars
    BY <1>7, <1>10 DEF Quiet, vars
<1>11. ASSUME StripTask \/ \E p \in regenerating : Regenerate(p) PROVE TasksInv'
    BY <1>7, <1>11 DEF StripTask, Regenerate
<1> QED
    BY <1>3, <1>4, <1>5, <1>6, <1>8, <1>9, <1>10, <1>11 DEF Next, Step


LEMMA RemoveAtIn ==
    ASSUME NEW S, NEW s \in Seq(S), NEW n \in DOMAIN s PROVE RemoveAt(s, n) \in Seq(S)
<1>1. n \in 1 .. Len(s) /\ Len(s) \in Nat
    OBVIOUS
<1>2. SubSeq(s, 1, n - 1) \in Seq(S)
    BY <1>1, SubSeqProperties
<1>3. SubSeq(s, n + 1, Len(s)) \in Seq(S)
    BY <1>1, SubSeqProperties
<1> QED
    BY <1>2, <1>3, ConcatProperties, Zenon DEF RemoveAt

LEMMA OrphansInvNext == TypesInv /\ [Next]_vars => OrphansInv'
<1> SUFFICES ASSUME TypesInv, [Next]_vars PROVE OrphansInv'
    OBVIOUS
<1>0. TasksInv /\ orphans \in Seq(Orphan)
    BY DEF TypesInv, OrphansInv
<1>1. ASSUME NEW t \in Threads, Unwind(t) PROVE OrphansInv'
    <2> DEFINE left == [j \in 1 .. Cardinality(Running(t)) |->
                          [idx |-> Nth(Running(t), j), task |-> tasks[t][Nth(Running(t), j)]]]
    <2>1. Running(t) \in SUBSET (0 .. BundleIdxCount - 1) /\ BundleIdxCount - 1 \in Nat
        BY BundleSetAssumption DEF Running, BundleIdx
    <2>2. Cardinality(Running(t)) \in Nat
        <3>1. IsFiniteSet(0 .. BundleIdxCount - 1)
            BY <2>1, FS_Interval
        <3> QED
            BY <2>1, <3>1, FS_Subset, FS_CardinalityType, Zenon
    <2>3. ASSUME NEW j \in 1 .. Cardinality(Running(t)) PROVE Nth(Running(t), j) \in Running(t)
        BY <2>1, <2>3, NthIsIn
    <2>4. ASSUME NEW idx \in Running(t) PROVE [idx |-> idx, task |-> tasks[t][idx]] \in Orphan
        BY <1>0, <2>4 DEF TasksInv, Running, Orphan
    <2>5. left \in [1 .. Cardinality(Running(t)) -> Orphan]
        BY <2>3, <2>4
    <2>6. orphans' = orphans \o left
        BY <1>1, Zenon DEF Unwind
    <2> HIDE DEF left
    <2>7. left \in Seq(Orphan)
        BY <2>2, <2>5, SeqDef
    <2> QED
        BY <1>0, <2>6, <2>7, ConcatProperties DEF OrphansInv
<1>2. ASSUME NEW n \in DOMAIN orphans, OrphanWork(n) PROVE OrphansInv'
    <2> DEFINE o == orphans[n]
               rest == [orphans EXCEPT ![n].task.todo = Tail(@)]
    <2>1. o \in Orphan
        BY <1>0
    <2>2. o.idx \in BundleIdx /\ o.task \in Task /\ o.task.todo \in Seq(Entries(Entry)) /\ o.task.todo # <<>>
        BY <2>1 DEF Orphan, Task
    <2>3. orphans' = RemoveAt(orphans, n) \/ (Len(o.task.todo) # 1 /\ orphans' = rest)
        BY <1>2, Zenon DEF OrphanWork
    <2>4. ASSUME Len(o.task.todo) # 1 PROVE rest \in Seq(Orphan)
        <3> DEFINE e == [o EXCEPT !.task.todo = Tail(@)]
        <3>1. Tail(o.task.todo) \in Seq(Entries(Entry)) /\ Tail(o.task.todo) # <<>>
            BY <2>2, <2>4, RestOf, Zenon
        <3>2. e \in Orphan
            <4> HIDE DEF o
            <4>1. e = [idx |-> o.idx, task |-> [o.task EXCEPT !.todo = Tail(@)]]
                BY <2>1 DEF Orphan
            <4>2. [o.task EXCEPT !.todo = Tail(@)] \in Task
                BY <2>2, <3>1 DEF Task
            <4>3. [o.task EXCEPT !.todo = Tail(@)].todo = Tail(o.task.todo)
                BY <2>2 DEF Task
            <4> QED
                BY <2>2, <3>1, <4>1, <4>2, <4>3 DEF Orphan
        <3>3. rest = [orphans EXCEPT ![n] = e]
            BY <1>0
        <3> HIDE DEF e, rest
        <3> QED
            BY <1>0, <3>2, <3>3
    <2>5. RemoveAt(orphans, n) \in Seq(Orphan)
        BY <1>0, RemoveAtIn
    <2> QED
        BY <2>3, <2>4, <2>5, Zenon DEF OrphansInv
<1>3. ASSUME NEW n \in DOMAIN orphans, OrphanLost(n) PROVE OrphansInv'
    BY <1>0, <1>3, RemoveAtIn DEF OrphanLost, OrphansInv
<1>4. ASSUME UNCHANGED orphans PROVE OrphansInv'
    BY <1>0, <1>4 DEF OrphansInv
<1>5. ASSUME NEW t \in Threads,
             \/ Enter(t) \/ Lock(t) \/ Dispatch(t) \/ Join(t) \/ ConvertFails(t) \/ Finish(t)
             \/ Clear(t) \/ SetDataInsert(t) \/ StripBegin(t) \/ StripEnd(t) \/ QueryLock(t)
             \/ QuerySend(t) \/ QueryBlocks(t) \/ QueryEnd(t) \/ QueryLeave(t)
             \/ \E idx \in BundleIdx : Work(t, idx) \/ TaskLost(t, idx)
      PROVE  OrphansInv'
    BY <1>4, <1>5 DEF Enter, Lock, Dispatch, Join, ConvertFails, Finish, Clear, SetDataInsert,
        StripBegin, StripEnd, QueryLock, QuerySend, QueryBlocks, QueryEnd, QueryLeave, Work, TaskLost
<1>6. CASE Quiet \/ UNCHANGED vars
    BY <1>4, <1>6 DEF Quiet, vars
<1>7. ASSUME StripTask \/ \E p \in regenerating : Regenerate(p) PROVE OrphansInv'
    BY <1>4, <1>7 DEF StripTask, Regenerate
<1> QED
    BY <1>1, <1>2, <1>3, <1>5, <1>6, <1>7 DEF Next, Step


LEMMA CallerTypesNext == CountInv /\ TypesInv /\ [Next]_vars => CallerTypes'
<1> SUFFICES ASSUME CountInv, TypesInv, [Next]_vars PROVE CallerTypes'
    OBVIOUS
<1>0. /\ CallerTypes
      /\ call \in [Threads -> Call \cup {NoCall}] /\ script \in [Threads -> Seq(Call)]
    BY DEF TypesInv, CountInv
<1>a. \A t \in Threads : \A how \in {"ok", "threw"} :
        Return(t, how) => result' \in [Threads -> {"none", "ok", "threw"}]
    BY <1>0 DEF CallerTypes, Return
<1>1. ASSUME NEW t \in Threads, Lock(t) PROVE CallerTypes'
    <2> DEFINE data == call[t].data
               K == IF call[t].op = "insert" THEN NewPositions(data) ELSE PresentPositions(data)
    <2>1. data \in Seq(Datum)
        BY <1>0, <1>1 DEF Lock, Call, NoCall
    <2>2. K \in SUBSET DOMAIN data
        BY DEF NewPositions, PresentPositions
    <2>3. ItemsAt(data, K) \subseteq Items
        <3> HIDE DEF data, K
        <3>1. \A j \in K : data[j] \in Datum
            BY <2>1, <2>2
        <3> QED
            BY <3>1 DEF ItemsAt, Datum
    <2>4. InsertPlan(data, K) \in Seq(Dispatches) /\ RemovePlan(data, K) \in Seq(Dispatches)
        BY <2>1, <2>2, PlanType
    <2>5. hashed_items' = hashed_items \cup ItemsAt(data, K)
          \/ hashed_items' = hashed_items \ ItemsAt(data, K)
        BY <1>1, Zenon DEF Lock
    <2>6. plan' = [plan EXCEPT ![t] = InsertPlan(data, K)]
          \/ plan' = [plan EXCEPT ![t] = RemovePlan(data, K)]
        BY <1>1, Zenon DEF Lock
    <2>7. UNCHANGED <<result, announced, stripped>>
        BY <1>1 DEF Lock
    <2> HIDE DEF data, K
    <2>8. hashed_items' \subseteq Items
        BY <1>0, <2>3, <2>5 DEF CallerTypes
    <2>9. plan' \in [Threads -> Seq(Dispatches)]
        BY <1>0, <2>4, <2>6 DEF CallerTypes
    <2> QED
        BY <1>0, <2>7, <2>8, <2>9 DEF CallerTypes
<1>2. ASSUME NEW t \in Threads, Dispatch(t) PROVE CallerTypes'
    <2>1. plan[t] \in Seq(Dispatches) /\ plan[t] # <<>>
        BY <1>0, <1>2 DEF CallerTypes, Dispatch
    <2>2. Tail(plan[t]) \in Seq(Dispatches)
        BY <2>1, RestOf, Zenon
    <2>3. plan' = [plan EXCEPT ![t] = Tail(plan[t])] /\ UNCHANGED <<hashed_items, stripped, result, announced>>
        BY <1>2 DEF Dispatch, dbVars
    <2> QED
        BY <1>0, <2>2, <2>3 DEF CallerTypes
<1>3. ASSUME NEW t \in Threads, QuerySend(t) \/ QueryEnd(t) PROVE CallerTypes'
    <2>1. BundleCount \in Nat
        BY BundlesInIsNat DEF TypesInv, BinsInv, GoodSet, IsSeq, BundleCount
    <2>2. PICK n \in Nat : announced' = [announced EXCEPT ![t] = n]
        BY <1>3, <2>1 DEF QuerySend, QueryEnd
    <2>3. announced' \in [Threads -> Nat]
        BY <1>0, <2>2 DEF CallerTypes
    <2>4. UNCHANGED <<hashed_items, stripped, plan, result>>
        BY <1>3 DEF QuerySend, QueryEnd, dbVars
    <2> QED
        BY <1>0, <2>3, <2>4 DEF CallerTypes
<1>4. ASSUME NEW t \in Threads, Unwind(t) PROVE CallerTypes'
    <2>1. <<>> \in Seq(Dispatches)
        OBVIOUS
    <2>2. plan' \in [Threads -> Seq(Dispatches)]
        BY <1>0, <1>4, <2>1 DEF CallerTypes, Unwind
    <2> QED
        BY <1>0, <1>a, <1>4, <2>2 DEF CallerTypes, Unwind, dbVars
<1>5. ASSUME NEW t \in Threads,
             Enter(t) \/ Finish(t) \/ Clear(t) \/ SetDataInsert(t) \/ StripEnd(t) \/ QueryLeave(t)
      PROVE  CallerTypes'
    <2>1. /\ UNCHANGED <<plan, announced>>
          /\ hashed_items' \in {hashed_items, {}} /\ stripped' \in {stripped, FALSE}
        BY <1>5 DEF Enter, Finish, Clear, SetDataInsert, StripEnd, QueryLeave, dbVars
    <2>2. UNCHANGED result \/ Return(t, "ok") \/ Return(t, "threw")
        BY <1>5 DEF Enter, Finish, Clear, SetDataInsert, StripEnd, QueryLeave
    <2> QED
        BY <1>0, <1>a, <2>1, <2>2 DEF CallerTypes
<1>6. ASSUME UNCHANGED <<plan, result, announced>>,
             hashed_items' \in {hashed_items, {}}, stripped' \in {stripped, TRUE}
      PROVE  CallerTypes'
    BY <1>0, <1>6 DEF CallerTypes
<1>7. ASSUME NEW t \in Threads,
             \/ Join(t) \/ ConvertFails(t) \/ StripBegin(t) \/ QueryLock(t) \/ QueryBlocks(t)
             \/ \E idx \in BundleIdx : Work(t, idx) \/ TaskLost(t, idx)
      PROVE  CallerTypes'
    BY <1>6, <1>7 DEF Join, ConvertFails, StripBegin, QueryLock, QueryBlocks, Work, TaskLost, dbVars
<1>8. ASSUME NEW n \in DOMAIN orphans, OrphanWork(n) \/ OrphanLost(n) PROVE CallerTypes'
    BY <1>6, <1>8 DEF OrphanWork, OrphanLost, dbVars
<1>9. CASE Quiet \/ UNCHANGED vars
    BY <1>6, <1>9 DEF Quiet, vars
<1>10. ASSUME StripTask \/ \E p \in regenerating : Regenerate(p) PROVE CallerTypes'
    BY <1>6, <1>10 DEF StripTask, Regenerate
<1> QED
    BY <1>1, <1>2, <1>3, <1>4, <1>5, <1>7, <1>8, <1>9, <1>10 DEF Next, Step

LEMMA TypesInvNext == LockInv /\ CountInv /\ TypesInv /\ [Next]_vars => TypesInv'
BY BinsInvNext, StripGoesOnNext, StripTypesNext, TasksInvNext, OrphansInvNext, CallerTypesNext
   DEF TypesInv

LEMMA BundlesAreGood == TypesInv => \A b \in AllBundles : GoodBundle(b, Entry, stripped, TRUE)
BY DEF TypesInv, BinsInv, AllBundles, ToSet, GoodSet

\* The variables have their types throughout; in particular what the bins and
\* caches hold are felts of items with labels that callers passed or that
\* remove_if emptied, whatever the calls and however they end.
THEOREM TypeCorrect == Spec => []TypeOK
<1>1. LockInv /\ CountInv /\ TypesInv => TypeOK
    <2> SUFFICES ASSUME LockInv, CountInv, TypesInv PROVE TypeOK
        OBVIOUS
    <2>1. ASSUME NEW b \in AllBundles
          PROVE  /\ b.cache_invalid \in BOOLEAN /\ b.stripped \in BOOLEAN
                 /\ \A k \in DOMAIN b.bins : ToSet(b.bins[k]) \subseteq Entry
                 /\ \A k \in BinIdx : ToSet(b.cache[k]) \subseteq Entry
        BY BundlesAreGood DEF GoodBundle, GoodBin, ToSet
    <2>2. item_count \in Int
        BY DEF CountInv
    <2>3. ToSet(to_strip) \cup regenerating \subseteq BundleIdx \X Nat /\ torn \subseteq Items
        BY DEF TypesInv, StripTypes, ToSet
    <2> QED
        BY <2>1, <2>2, <2>3 DEF TypeOK, TypesInv, BinsInv, CallerTypes, LockInv, LockTypes, Locations
<1> QED
    BY LockInvInit, LockInvNext, CountInvInit, CountInvNext, TypesInvInit, TypesInvNext, <1>1, PTL
       DEF Spec

\* The matching polynomial of every bin fits the powers a query carries and
\* what BinBundle::load accepts (bin_bundle.cpp:1322-1329), after any calls,
\* those that throw and the tasks they leave behind included.
THEOREM PolynomialsAlwaysFit == Spec => []PolynomialsFit
<1>1. TypesInv => PolynomialsFit
    BY BundlesAreGood DEF GoodBundle, GoodBin, PolynomialsFit
<1> QED
    BY LockInvInit, LockInvNext, CountInvInit, CountInvNext, TypesInvInit, TypesInvNext, <1>1, PTL
       DEF Spec

\* No labeled bin ever holds a felt twice, so the points that are
\* interpolated are distinct (bin_bundle.cpp:552-572), whatever the items
\* share and however the calls interleave and fail.
THEOREM PointsAreDistinct == Spec => []LabeledBinsDistinct
<1>1. \A e \in Entry : e.felt # Garbled
    BY BundleSetAssumption DEF Entry, Passed
<1>2. ASSUME TypesInv, Labeled, NEW b \in AllBundles, NEW k \in DOMAIN b.bins,
             NEW m \in DOMAIN b.bins[k], NEW n \in DOMAIN b.bins[k],
             b.bins[k][m].felt = b.bins[k][n].felt
      PROVE  m = n
  <2>1. GoodBin(b.bins[k], Entry)
      BY <1>2, BundlesAreGood, Zenon DEF GoodBundle
  <2> QED
      BY <1>1, <1>2, <2>1 DEF GoodBin
<1>3. TypesInv => LabeledBinsDistinct
    BY <1>2, Zenon DEF LabeledBinsDistinct
<1> QED
    BY LockInvInit, LockInvNext, CountInvInit, CountInvNext, TypesInvInit, TypesInvNext, <1>3, PTL
       DEF Spec

-----------------------------------------------------------------------------
(***************************************************************************)
(* Who waits for a task, and whose call can throw half-way: a call that    *)
(* names no item dispatches nothing, so it reaches its end.                *)
(***************************************************************************)
Vacuous == {d \in Dispatches : d.data = <<>>}

Busy(t) == pc[t] \in {"dispatch", "join", "unwind"}

TasksHaveCallers ==
    \A t \in Threads : \A idx \in BundleIdx :
        tasks[t][idx].status # "none" => pc[t] \in {"join", "unwind"}

EmptyCallsPass ==
    \A t \in Threads : Busy(t) /\ call[t].data = <<>> =>
        /\ plan[t] \in Seq(Vacuous)
        /\ \A idx \in BundleIdx : tasks[t][idx].status = "none"
        /\ pc[t] # "unwind"

CallersInv == TasksHaveCallers /\ EmptyCallsPass

LEMMA CallersInvInit == Init => CallersInv
BY DEF Init, CallersInv, TasksHaveCallers, EmptyCallsPass, Busy, NoTasks, NoTask

LEMMA EmptyPlan ==
    ASSUME NEW data, data = <<>>, NEW K \in SUBSET DOMAIN data
    PROVE  InsertPlan(data, K) \in Seq(Vacuous) /\ RemovePlan(data, K) \in Seq(Vacuous)
<1>1. data \in Seq(Datum) /\ Len(data) = 0
    OBVIOUS
<1> DEFINE moved == RemoveIf(data, K)
           n == Cardinality(K)
<1>2. moved \in Seq(Passed) /\ Len(moved) = 0 /\ n \in 0 .. 0
    BY <1>1, RemoveIfType
<1> HIDE DEF moved, n
<1>3. moved = <<>> /\ n = 0
    BY <1>2
<1>4. Front_(moved, n) = <<>> /\ Back_(moved, n) = <<>>
    BY <1>3 DEF Front_, Back_
<1>5. \A op \in {"insert", "remove"} : <<[op |-> op, data |-> <<>>]>> \in Seq(Vacuous)
    BY DEF Vacuous, Dispatches
<1>6. \A op : Step_(op, <<>>) = <<>>
    BY DEF Step_
<1>7. InsertPlan(data, K) = IF Labeled
        THEN Step_("overwrite", Back_(moved, n)) \o Step_("insert", Front_(moved, n))
        ELSE <<[op |-> "insert", data |-> Front_(moved, n)]>>
    BY Zenon DEF InsertPlan, moved, n
<1>8. InsertPlan(data, K) = IF Labeled THEN <<>> \o <<>> ELSE <<[op |-> "insert", data |-> <<>>]>>
    BY <1>4, <1>6, <1>7, Zenon
<1>9. RemovePlan(data, K) = <<[op |-> "remove", data |-> <<>>]>>
    BY <1>3, Zenon DEF RemovePlan, moved
<1>10. <<>> \o <<>> \in Seq(Vacuous)
    OBVIOUS
<1> QED
    BY <1>5, <1>8, <1>9, <1>10

LEMMA VacuousDispatch ==
    ASSUME NEW d \in Vacuous
    PROVE  ~BadLabel(d) /\ \A idx \in BundleIdx : TaskOf(d.data, idx) = <<>>
<1>1. d.data = <<>>
    BY DEF Vacuous
<1>2. ASSUME NEW idx \in BundleIdx PROVE TaskOf(d.data, idx) = <<>>
    <2> DEFINE parts == [j \in DOMAIN d.data |-> ElementsAt(EntriesOf(d.data[j]), LocsAt(d.data[j].item, idx))]
    <2>1. parts = <<>>
        BY <1>1
    <2> HIDE DEF parts
    <2>2. parts \in Seq(Seq({}))
        BY <2>1
    <2>3. FlattenSeq(parts) \in Seq({})
        BY <2>2, FlattenIn, Zenon
    <2>4. FlattenSeq(parts) = <<>>
        BY <2>3
    <2> QED
        BY <2>4, Zenon DEF TaskOf, parts
<1> QED
    BY <1>1, <1>2 DEF BadLabel

LEMMA CallersInvNext == LockInv /\ CountInv /\ TypesInv /\ CallersInv /\ [Next]_vars => CallersInv'
<1> SUFFICES ASSUME LockInv, CountInv, TypesInv, CallersInv, [Next]_vars PROVE CallersInv'
    OBVIOUS
<1>0. /\ TasksHaveCallers /\ EmptyCallsPass
      /\ pc \in [Threads -> Locations]
      /\ plan \in [Threads -> Seq(Dispatches)] /\ tasks \in [Threads -> [BundleIdx -> Task]]
      /\ call \in [Threads -> Call \cup {NoCall}]
    BY DEF LockInv, LockTypes, CountInv, TypesInv, TasksInv, CallerTypes, CallersInv
\* What one thread does says nothing of the others.
<1>1. ASSUME NEW t \in Threads,
             \A q \in Threads \ {t} : /\ pc'[q] = pc[q] /\ call'[q] = call[q]
                                      /\ plan'[q] = plan[q] /\ tasks'[q] = tasks[q],
             \A idx \in BundleIdx : tasks'[t][idx].status # "none" => pc'[t] \in {"join", "unwind"},
             Busy(t)' /\ call'[t].data = <<>> =>
               /\ plan'[t] \in Seq(Vacuous)
               /\ \A idx \in BundleIdx : tasks'[t][idx].status = "none"
               /\ pc'[t] # "unwind"
      PROVE  CallersInv'
    <2>1. TasksHaveCallers'
        BY <1>0, <1>1 DEF TasksHaveCallers
    <2>2. ASSUME NEW q \in Threads \ {t}, Busy(q)', call'[q].data = <<>>
          PROVE  /\ plan'[q] \in Seq(Vacuous)
                 /\ \A idx \in BundleIdx : tasks'[q][idx].status = "none"
                 /\ pc'[q] # "unwind"
        BY <1>0, <1>1, <2>2 DEF EmptyCallsPass, Busy
    <2>3. EmptyCallsPass'
        BY <1>1, <2>2, Zenon DEF EmptyCallsPass
    <2> QED
        BY <2>1, <2>3 DEF CallersInv
\* The steps that end outside the part where tasks are made and awaited.
<1>2. ASSUME NEW t \in Threads, UNCHANGED tasks,
             \A q \in Threads \ {t} : /\ pc'[q] = pc[q] /\ call'[q] = call[q] /\ plan'[q] = plan[q],
             pc[t] \notin {"join", "unwind"}, ~Busy(t)'
      PROVE  CallersInv'
    <2>1. \A idx \in BundleIdx : tasks[t][idx].status = "none"
        BY <1>0, <1>2 DEF TasksHaveCallers
    <2> QED
        BY <1>1, <1>2, <2>1
<1>3. ASSUME NEW t \in Threads, Lock(t) PROVE CallersInv'
    <2> DEFINE data == call[t].data
               K == IF call[t].op = "insert" THEN NewPositions(data) ELSE PresentPositions(data)
    <2>1. K \in SUBSET DOMAIN data
        BY DEF NewPositions, PresentPositions
    <2>2. plan'[t] \in {InsertPlan(data, K), RemovePlan(data, K)}
        BY <1>0, <1>3 DEF Lock
    <2>3. /\ UNCHANGED <<tasks, call>> /\ pc'[t] = "dispatch" /\ pc[t] = "waiting"
          /\ \A q \in Threads \ {t} : pc'[q] = pc[q] /\ plan'[q] = plan[q]
        BY <1>0, <1>3 DEF Lock, Goto
    <2>4. data = <<>> => plan'[t] \in Seq(Vacuous)
        <3> HIDE DEF data, K
        <3> QED
            BY <2>1, <2>2, EmptyPlan
    <2>5. \A idx \in BundleIdx : tasks[t][idx].status = "none"
        BY <1>0, <2>3 DEF TasksHaveCallers
    <2> QED
        BY <1>1, <2>3, <2>4, <2>5
<1>4. ASSUME NEW t \in Threads, Dispatch(t) PROVE CallersInv'
    <2>1. /\ UNCHANGED call /\ pc'[t] = "join" /\ pc[t] = "dispatch"
          /\ plan[t] # <<>> /\ plan'[t] = Tail(plan[t])
          /\ \A q \in Threads \ {t} : pc'[q] = pc[q] /\ plan'[q] = plan[q] /\ tasks'[q] = tasks[q]
        BY <1>0, <1>4 DEF Dispatch, Goto
    <2>2. call[t].data = <<>> => Head(plan[t]) \in Vacuous /\ Tail(plan[t]) \in Seq(Vacuous)
        <3>1. call[t].data = <<>> => plan[t] \in Seq(Vacuous)
            BY <1>0, <2>1 DEF EmptyCallsPass, Busy
        <3> QED
            BY <2>1, <3>1, RestOf
    <2>3. ASSUME NEW idx \in BundleIdx, call[t].data = <<>> PROVE tasks'[t][idx].status = "none"
        <3> DEFINE todo == TaskOf(Head(plan[t]).data, idx)
        <3>1. tasks'[t][idx] = IF todo = <<>> THEN NoTask
                 ELSE [status |-> "running", op |-> Head(plan[t]).op, todo |-> todo]
            BY <1>0, <1>4 DEF Dispatch
        <3>2. todo = <<>>
            BY <2>2, <2>3, VacuousDispatch
        <3> HIDE DEF todo
        <3> QED
            BY <3>1, <3>2 DEF NoTask
    <2> QED
        BY <1>1, <2>1, <2>2, <2>3
<1>5. ASSUME NEW t \in Threads, Join(t) PROVE CallersInv'
    <2>1. /\ UNCHANGED <<call, plan>> /\ pc[t] = "join" /\ Busy(t)
          /\ \A q \in Threads \ {t} : pc'[q] = pc[q] /\ tasks'[q] = tasks[q]
        BY <1>0, <1>5 DEF Join, Goto, Busy
    <2>2. call[t].data = <<>> =>
            plan[t] \in Seq(Vacuous) /\ \A idx \in BundleIdx : tasks[t][idx].status = "none"
        BY <1>0, <2>1 DEF EmptyCallsPass
    <2>3. CASE pc'[t] = "dispatch" /\ tasks'[t] = NoTasks
        <3>1. \A idx \in BundleIdx : NoTasks[idx].status = "none"
            BY DEF NoTasks, NoTask
        <3> QED
            BY <1>1, <2>1, <2>2, <2>3, <3>1
    <2>4. CASE ThrewFirst(t) /\ pc'[t] = "unwind" /\ UNCHANGED tasks
        <3>1. call[t].data # <<>>
            BY <2>2, <2>4 DEF ThrewFirst
        <3> QED
            BY <1>1, <2>1, <2>4, <3>1
    <2> QED
        BY <1>0, <1>5, <2>3, <2>4 DEF Join, Goto
<1>6. ASSUME NEW t \in Threads, NEW idx \in BundleIdx, Work(t, idx) \/ TaskLost(t, idx)
      PROVE  CallersInv'
    <2>1. /\ UNCHANGED <<call, plan, pc>> /\ tasks[t][idx].status # "none"
          /\ \A q \in Threads \ {t} : tasks'[q] = tasks[q]
        BY <1>0, <1>6 DEF Work, TaskLost, Running
    <2>2. pc[t] \in {"join", "unwind"}
        BY <1>0, <2>1 DEF TasksHaveCallers
    <2>3. call[t].data # <<>>
        BY <1>0, <2>1, <2>2 DEF EmptyCallsPass, Busy
    <2> QED
        BY <1>1, <2>1, <2>2, <2>3
<1>7. ASSUME NEW t \in Threads, ConvertFails(t) PROVE CallersInv'
    <2>1. /\ UNCHANGED <<call, plan, tasks>> /\ pc'[t] = "unwind" /\ pc[t] = "dispatch"
          /\ plan[t] # <<>> /\ BadLabel(Head(plan[t]))
          /\ \A q \in Threads \ {t} : pc'[q] = pc[q]
        BY <1>0, <1>7 DEF ConvertFails, Goto
    <2>2. call[t].data = <<>> => Head(plan[t]) \in Vacuous
        <3>1. call[t].data = <<>> => plan[t] \in Seq(Vacuous)
            BY <1>0, <2>1 DEF EmptyCallsPass, Busy
        <3> QED
            BY <2>1, <3>1, RestOf
    <2>3. call[t].data # <<>>
        BY <2>1, <2>2, VacuousDispatch
    <2> QED
        BY <1>1, <2>1, <2>3
<1>8. ASSUME NEW t \in Threads, Unwind(t) PROVE CallersInv'
    <2>1. /\ pc'[t] = "idle" /\ tasks'[t] = NoTasks
          /\ \A q \in Threads \ {t} : /\ pc'[q] = pc[q] /\ call'[q] = call[q]
                                      /\ plan'[q] = plan[q] /\ tasks'[q] = tasks[q]
        BY <1>0, <1>8 DEF Unwind, Return, Goto
    <2>2. \A idx \in BundleIdx : NoTasks[idx].status = "none"
        BY DEF NoTasks, NoTask
    <2> QED
        BY <1>1, <2>1, <2>2 DEF Busy
<1>9. ASSUME NEW t \in Threads,
             \/ Enter(t) \/ Finish(t) \/ Clear(t) \/ SetDataInsert(t) \/ StripBegin(t) \/ StripEnd(t)
             \/ QueryLock(t) \/ QuerySend(t) \/ QueryBlocks(t) \/ QueryEnd(t) \/ QueryLeave(t)
      PROVE  CallersInv'
    <2>1. UNCHANGED <<tasks, plan>>
        BY <1>9 DEF Enter, Finish, Clear, SetDataInsert, StripBegin, StripEnd, QueryLock, QuerySend,
            QueryBlocks, QueryEnd, QueryLeave
    <2>2. /\ \A q \in Threads \ {t} : pc'[q] = pc[q] /\ call'[q] = call[q]
          /\ pc[t] \notin {"join", "unwind"} /\ pc'[t] \notin {"dispatch", "join", "unwind"}
        BY <1>0, <1>9 DEF Enter, Finish, Clear, SetDataInsert, StripBegin, StripEnd, QueryLock,
            QuerySend, QueryBlocks, QueryEnd, QueryLeave, Return, Goto
    <2> QED
        BY <1>2, <2>1, <2>2 DEF Busy
<1>10. ASSUME UNCHANGED <<pc, call, plan, tasks>> PROVE CallersInv'
    BY <1>0, <1>10 DEF CallersInv, TasksHaveCallers, EmptyCallsPass, Busy
<1>11. ASSUME NEW n \in DOMAIN orphans, OrphanWork(n) \/ OrphanLost(n) PROVE CallersInv'
    BY <1>10, <1>11 DEF OrphanWork, OrphanLost
<1>12. CASE Quiet \/ UNCHANGED vars
    BY <1>10, <1>12 DEF Quiet, vars
<1>13. ASSUME StripTask \/ \E p \in regenerating : Regenerate(p) PROVE CallersInv'
    BY <1>10, <1>13 DEF StripTask, Regenerate
<1> QED
    BY <1>3, <1>4, <1>5, <1>6, <1>7, <1>8, <1>9, <1>11, <1>12, <1>13 DEF Next, Step

-----------------------------------------------------------------------------
(***************************************************************************)
(* What a query reads.  While no call has thrown half-way, or once clear() *)
(* has made up for it, no task outlives its dispatch; when the lock is     *)
(* free every cache is valid and answers as it did at the last unlock; and *)
(* what a query has announced is still there.                              *)
(***************************************************************************)
FreeIsCommitted == writer = NoThread => ~StaleCache /\ Answers(bin_bundles) = committed

AnnouncedIsThere == \A t \in Threads : pc[t] = "q_sent" => announced[t] = BundleCount

StripIsFresh == \A t \in Threads : pc[t] = "strip" => ~StaleCache

Calm == orphans = <<>> /\ FreeIsCommitted /\ AnnouncedIsThere /\ StripIsFresh

CalmInv == torn = {} => Calm

LEMMA StaleCacheIs ==
    ~StaleCache <=> \A idx \in BundleIdx : \A j \in DOMAIN bin_bundles[idx] :
                        ~bin_bundles[idx][j].cache_invalid
BY DEF StaleCache, AllBundles, ToSet

LEMMA EmptyIsAbsent == Answers(EmptyDB) = [i \in Items |-> Absent]
<1>1. ASSUME NEW i \in Items PROVE AnswerFor(EmptyDB, i) = Absent
    <2>1. ASSUME NEW loc \in ToSet(ItemLocs[i]) PROVE MatchesAt(EmptyDB, i, loc) = {}
        BY LocationsAssumption DEF MatchesAt, EmptyDB
    <2> QED
        BY <2>1 DEF AnswerFor
<1> QED
    BY <1>1, Zenon DEF Answers

LEMMA CalmInvInit == Init => CalmInv
<1> SUFFICES ASSUME Init PROVE Calm
    BY DEF CalmInv
<1>1. ~StaleCache
    BY StaleCacheIs DEF Init, EmptyDB
<1>2. Answers(bin_bundles) = committed
    BY EmptyIsAbsent DEF Init
<1>3. AnnouncedIsThere /\ orphans = <<>>
    BY DEF Init, AnnouncedIsThere
<1> QED
    BY <1>1, <1>2, <1>3 DEF Calm, FreeIsCommitted, StripIsFresh

\* Caches made valid are not stale, and a bundle stripped with a valid cache
\* keeps it.
LEMMA RegeneratedIsFresh ==
    ASSUME \/ bin_bundles' = GenerateCaches(bin_bundles)
           \/ bin_bundles' = EmptyDB
    PROVE  ~StaleCache'
<1>1. ASSUME NEW idx \in BundleIdx, NEW j \in DOMAIN bin_bundles'[idx]
      PROVE  ~bin_bundles'[idx][j].cache_invalid
    <2>1. CASE bin_bundles' = EmptyDB
        BY <1>1, <2>1 DEF EmptyDB
    <2>2. CASE bin_bundles' = GenerateCaches(bin_bundles)
        <3>1. bin_bundles'[idx][j] = RegenCache(bin_bundles[idx][j])
            BY <1>1, <2>2 DEF GenerateCaches
        <3> QED
            BY <3>1, RegenIsFresh
    <2> QED
        BY <2>1, <2>2
<1> QED
    BY <1>1 DEF StaleCache, AllBundles, ToSet

LEMMA StrippedIsFresh ==
    ASSUME BinsInv, ~StaleCache, NEW p \in BundleIdx \X Nat, bin_bundles' = StripAt(p)
    PROVE  ~StaleCache'
<1> DEFINE set == bin_bundles[p[1]]
<1>1. CASE ~IsThere(p)
    BY <1>1 DEF StripAt, StaleCache, AllBundles
<1>2. CASE IsThere(p)
    <2>1. bin_bundles' = [bin_bundles EXCEPT ![p[1]] = [set EXCEPT ![p[2]] = StripBundle(@)]]
        BY <1>2 DEF StripAt
    <2>2. DOMAIN bin_bundles = BundleIdx /\ p[1] \in BundleIdx
        BY DEF BinsInv
    <2>3. ASSUME NEW idx \in BundleIdx, NEW j \in DOMAIN bin_bundles'[idx]
          PROVE  ~bin_bundles'[idx][j].cache_invalid
        <3>1. j \in DOMAIN bin_bundles[idx] /\ ~bin_bundles[idx][j].cache_invalid
            BY <2>1, <2>2, <2>3, StaleCacheIs
        <3>2. bin_bundles'[idx][j] \in {bin_bundles[idx][j], StripBundle(bin_bundles[idx][j])}
            BY <2>1, <2>2, <3>1
        <3>3. StripBundle(bin_bundles[idx][j]).cache_invalid = RegenCache(bin_bundles[idx][j]).cache_invalid
            BY DEF StripBundle
        <3> QED
            BY <3>1, <3>2, <3>3, RegenIsFresh
    <2> QED
        BY <2>3 DEF StaleCache, AllBundles, ToSet
<1> QED
    BY <1>1, <1>2

\* A step that leaves the bundles alone leaves what is read in them alone.
LEMMA SameBundles ==
    ASSUME UNCHANGED bin_bundles
    PROVE  /\ StaleCache' <=> StaleCache
           /\ Answers(bin_bundles)' = Answers(bin_bundles)
           /\ BundleCount' = BundleCount
<1>1. StaleCache' <=> StaleCache
    BY DEF StaleCache, AllBundles
<1>2. Answers(bin_bundles)' = Answers(bin_bundles)
    BY Zenon
<1>3. BundleCount' = BundleCount
    BY Zenon DEF BundleCount
<1> QED
    BY <1>1, <1>2, <1>3

LEMMA CalmInvNext ==
    LockInv /\ LockInv' /\ CountInv /\ TypesInv /\ CallersInv /\ CalmInv /\ [Next]_vars => CalmInv'
<1> SUFFICES ASSUME LockInv, LockInv', CountInv, TypesInv, CallersInv, CalmInv, [Next]_vars, torn' = {}
             PROVE  Calm'
    BY DEF CalmInv
<1>0. /\ pc \in [Threads -> Locations] /\ pc' \in [Threads -> Locations]
      /\ call \in [Threads -> Call \cup {NoCall}] /\ announced \in [Threads -> Nat]
      /\ DOMAIN tasks = Threads
    BY DEF LockInv, LockTypes, CountInv, TypesInv, CallerTypes, TasksInv
<1>a. torn' = torn \/ torn \subseteq torn' => Calm
    BY DEF CalmInv
<1> USE SenderDBAssumption DEF dbVars, Goto, Return
\* Steps that leave the bundles and the answers alone, and send nothing.
<1>1. ASSUME UNCHANGED <<bin_bundles, orphans, committed, torn>>,
             writer' = NoThread => writer = NoThread,
             \A q \in Threads : pc'[q] = "q_sent" => pc[q] = "q_sent" /\ announced'[q] = announced[q],
             \A q \in Threads : pc'[q] = "strip" => pc[q] = "strip"
      PROVE  Calm'
    BY <1>1, <1>a, SameBundles DEF Calm, FreeIsCommitted, AnnouncedIsThere, StripIsFresh
<1>2. ASSUME NEW t \in Threads,
             \/ Enter(t) \/ Lock(t) \/ Dispatch(t) \/ Join(t) \/ ConvertFails(t) \/ SetDataInsert(t)
             \/ QueryLock(t) \/ QueryBlocks(t) \/ QueryEnd(t) \/ QueryLeave(t)
      PROVE  Calm'
    <2>1. UNCHANGED <<bin_bundles, orphans, committed, torn>>
        BY <1>2 DEF Enter, Lock, Dispatch, Join, ConvertFails, SetDataInsert, QueryLock, QueryBlocks,
            QueryEnd, QueryLeave
    <2>2. writer' = NoThread => writer = NoThread
        BY <1>2 DEF Enter, Lock, Dispatch, Join, ConvertFails, SetDataInsert, QueryLock, QueryBlocks,
            QueryEnd, QueryLeave
    <2>3. \A q \in Threads : q # t => pc'[q] = pc[q] /\ announced'[q] = announced[q]
        BY <1>0, <1>2 DEF Enter, Lock, Dispatch, Join, ConvertFails, SetDataInsert, QueryLock,
            QueryBlocks, QueryEnd, QueryLeave
    <2>4. pc'[t] \notin {"q_sent", "strip"}
        BY <1>0, <1>2 DEF Enter, Lock, Dispatch, Join, ConvertFails, SetDataInsert, QueryLock,
            QueryBlocks, QueryEnd, QueryLeave
    <2> QED
        BY <1>1, <2>1, <2>2, <2>3, <2>4
<1>3. ASSUME NEW t \in Threads, QuerySend(t) PROVE Calm'
    <2>1. UNCHANGED <<bin_bundles, orphans, committed, torn, writer>>
        BY <1>3 DEF QuerySend
    <2>2. \A q \in Threads : q # t => pc'[q] = pc[q] /\ announced'[q] = announced[q]
        BY <1>0, <1>3 DEF QuerySend
    <2>3. announced'[t] = BundleCount /\ pc'[t] = "q_sent"
        BY <1>0, <1>3 DEF QuerySend
    <2> QED
        BY <1>a, <2>1, <2>2, <2>3, SameBundles
           DEF Calm, FreeIsCommitted, AnnouncedIsThere, StripIsFresh
<1>4. ASSUME NEW t \in Threads, StripBegin(t) PROVE Calm'
    <2>1. UNCHANGED <<bin_bundles, orphans, committed, torn, announced>> /\ writer' = t
        BY <1>4 DEF StripBegin
    <2>2. writer = NoThread /\ ~StaleCache
        BY <1>a, <1>4, <2>1 DEF StripBegin, LockFree, Calm, FreeIsCommitted
    <2>3. pc'[t] = "strip" /\ \A q \in Threads : q # t => pc'[q] = pc[q]
        BY <1>0, <1>4 DEF StripBegin
    <2> QED
        BY <1>a, <2>1, <2>2, <2>3, SameBundles
           DEF Calm, FreeIsCommitted, AnnouncedIsThere, StripIsFresh
<1>5. ASSUME NEW t \in Threads, Finish(t) \/ Clear(t) \/ StripEnd(t) PROVE Calm'
    <2>1. orphans' = <<>>
        <3>1. CASE Clear(t)
            BY <3>1 DEF Clear, CalmInv, Calm
        <3>2. CASE Finish(t) \/ StripEnd(t)
            BY <1>a, <3>2 DEF Finish, StripEnd, Calm
        <3> QED
            BY <1>5, <3>1, <3>2
    <2>2. committed' = Answers(bin_bundles')
        BY <1>5 DEF Finish, Clear, StripEnd
    <2>3. ~StaleCache'
        <3>1. CASE StripEnd(t)
            <4>1. UNCHANGED <<bin_bundles, torn>> /\ pc[t] = "strip"
                BY <3>1 DEF StripEnd
            <4> QED
                BY <1>a, <4>1, SameBundles DEF Calm, StripIsFresh
        <3> QED
            BY <1>5, <3>1, RegeneratedIsFresh DEF Finish, Clear
    <2>4. \A q \in Threads : pc[q] # "q_sent"
        BY <1>5 DEF LockInv, LockTypes, LockExclusion, LockFree, Finish, Clear, StripEnd
    <2>5. \A q \in Threads : pc'[q] # "q_sent"
        BY <1>0, <1>5, <2>4 DEF Finish, Clear, StripEnd
    <2> QED
        BY <2>1, <2>2, <2>3, <2>5 DEF Calm, FreeIsCommitted, AnnouncedIsThere, StripIsFresh
<1>6. ASSUME NEW t \in Threads, NEW idx \in BundleIdx, Work(t, idx) \/ TaskLost(t, idx)
      PROVE  Calm'
    <2>1. UNCHANGED <<orphans, pc, writer, torn>>
        BY <1>6 DEF Work, TaskLost
    <2>2. pc[t] \in {"join", "unwind"}
        BY <1>6 DEF CallersInv, TasksHaveCallers, Work, TaskLost
    <2>3. writer = t /\ \A q \in Threads : pc[q] \notin {"q_sent", "strip"}
        BY <1>0, <2>2 DEF LockInv, LockTypes, LockExclusion
    <2> QED
        BY <1>a, <2>1, <2>3 DEF Calm, FreeIsCommitted, AnnouncedIsThere, StripIsFresh
<1>7. ASSUME StripTask \/ \E p \in regenerating : Regenerate(p) PROVE Calm'
    <2>1. UNCHANGED <<orphans, pc, writer, torn>>
        BY <1>7 DEF StripTask, Regenerate
    <2>2. PICK t \in Threads : pc[t] = "strip"
        BY <1>7 DEF TypesInv, StripGoesOn, StripTask, Regenerate
    <2>3. writer = t /\ \A q \in Threads : pc[q] # "q_sent"
        BY <1>0, <2>2 DEF LockInv, LockTypes, LockExclusion
    <2>4. ~StaleCache /\ orphans = <<>>
        BY <1>a, <2>1, <2>2 DEF Calm, StripIsFresh
    <2>5. \/ UNCHANGED bin_bundles
          \/ \E p \in BundleIdx \X Nat : bin_bundles' = StripAt(p)
        <3>1. to_strip # <<>> => Head(to_strip) \in BundleIdx \X Nat
            BY RestOf DEF TypesInv, StripTypes
        <3> QED
            BY <1>7, <3>1 DEF StripTask, Regenerate, TypesInv, StripTypes
    <2>6. ~StaleCache'
        BY <2>4, <2>5, SameBundles, StrippedIsFresh DEF TypesInv
    <2> QED
        BY <2>1, <2>3, <2>4, <2>6 DEF Calm, FreeIsCommitted, AnnouncedIsThere, StripIsFresh
<1>8. ASSUME NEW n \in DOMAIN orphans, OrphanWork(n) \/ OrphanLost(n) PROVE Calm'
    <2>1. UNCHANGED torn
        BY <1>8 DEF OrphanWork, OrphanLost
    <2> QED
        BY <1>a, <1>8, <2>1 DEF Calm
<1>9. ASSUME NEW t \in Threads, Unwind(t) PROVE Calm'
    <2>1. pc[t] = "unwind" /\ Named(call[t].data) = {}
        BY <1>9 DEF Unwind
    <2>2. call[t].data \in Seq(Datum)
        <3>1. call[t] \in Call \cup {NoCall}
            BY <1>0
        <3>2. (\A c \in Call : c.data \in Seq(Datum)) /\ NoCall.data \in Seq(Datum)
            BY DEF Call, NoCall
        <3> QED
            BY <3>1, <3>2, Zenon
    <2>3. call[t].data # <<>>
        BY <2>1 DEF CallersInv, EmptyCallsPass, Busy
    <2>4. Named(call[t].data) # {}
        <3>1. 1 \in DOMAIN call[t].data
            BY <2>2, <2>3
        <3> QED
            BY <3>1 DEF Named, ItemsAt
    <2> QED
        BY <2>1, <2>4
<1>10. CASE Quiet \/ UNCHANGED vars
    <2>1. UNCHANGED vars
        BY <1>10 DEF Quiet
    <2>2. UNCHANGED <<bin_bundles, orphans, committed, torn, writer, announced, pc>>
        BY <2>1 DEF vars
    <2> QED
        BY <1>1, <2>2
<1> QED
    BY <1>2, <1>3, <1>4, <1>5, <1>6, <1>7, <1>8, <1>9, <1>10 DEF Next, Step

\* Between the count it announces and the caches it reads a query sees one
\* database, that of the last completed call, and no stale cache
\* (Sender::RunQuery, sender.cpp:129-304), until a call that names items
\* throws half-way, and again once clear() finds no task left behind.
THEOREM QueriesSeeOneDatabase == Spec => []ReadersSeeCommitted
<1>1. LockInv /\ CalmInv => ReadersSeeCommitted
    BY SenderDBAssumption
       DEF LockInv, LockTypes, LockExclusion, CalmInv, Calm, FreeIsCommitted, AnnouncedIsThere,
           ReadersSeeCommitted
<1> QED
    BY LockInvInit, LockInvNext, CountInvInit, CountInvNext, TypesInvInit, TypesInvNext,
       CallersInvInit, CallersInvNext, CalmInvInit, CalmInvNext, <1>1, PTL DEF Spec
=============================================================================
