# APSI in TLA+

Specifications of APSI, a library for asymmetric private set intersection: a
sender holds a database of items (with labels, if it is a labeled database), a
receiver asks which of its items are in it (and for their labels), and neither
learns more. The specifications are about the state the two programs keep and
the threads that change it; the cryptography is abstracted.

## 1. Inventory

| Part | State | Operations | What is hard | Correct means |
|---|---|---|---|---|
| `SenderDB` (sender/apsi/sender_db.cpp) | `hashed_items_`, `item_count_`, `bin_bundles_`, `stripped_`, a reader-writer lock | `insert_or_assign`, `remove`, `set_data`, `clear`, `strip`, `get_label`, `has_item`, `save`, `Load`, move assignment | work is split by bundle index over pool threads; exceptions leave half-way and undo nothing; some state is read before the lock; a file may be cut short | calls are atomic for queries; counts and caches follow the items; labels are the last ones written; what was saved is what loads |
| `BinBundle` (sender/apsi/bin_bundle.cpp) | bins of felts, label bins, cuckoo filters, the cache of polynomials | `multi_insert`, `try_multi_overwrite`, `try_multi_remove`, `try_get_multi_label`, `regen_cache`, `strip`, `save`, `load`, `eval`, `eval_patstock` | presence of an item is decided bin by bin; the cache must be invalidated by every change; ciphertexts and coefficients must meet in the same form and at the same level | polynomials fit the parameters and can be interpolated; the cache equals the bins; both evaluations give the value |
| Thread pool (common/apsi/util/thread_pool.h, thread_pool_mgr.cpp) | task queue, workers, limits, three condition variables, a reference count | `enqueue`, waits, resizing, construction and destruction by the manager | lost wake-ups, shutdown with work left, nested use | every accepted task runs, every waiting thread is woken |
| Query handling (sender/apsi/sender.cpp, query.cpp) | the powers of the query, the sender's caches | `RunParams`, `RunOPRF`, `RunQuery`, `ComputePowers`, `ProcessBinBundleCache` | runs against writers; announces a number of packages first | as many packages as announced, all of one database |
| Powers DAG (common/apsi/powers.cpp, powers.h) | nodes, their depth and parents; states of a parallel traversal | `configure`, `apply`, `parallel_apply` | workers spin on the state of parents | every power computed once, after its parents; minimal use of depth |
| Cuckoo filter (sender/apsi/util/cuckoo_filter.cpp) | table of tags, overflow slot | `add`, `contains`, `remove` | kicks, a full table, tags shared by items | no false negative |
| Receiver (receiver/apsi/receiver.cpp) | index translation table, result packages | `RequestParams`, `RequestOPRF`, `create_query`, `request_query`, `process_result` | several workers take packages from one channel; bundles can hold an item by accident | each match is reported once, with its label |
| Dispatcher and channels (sender/apsi/zmq, common/apsi/network) | sockets, streams, pending messages | `receive_operation`, `send`, `dispatch` | headers and bodies of several threads on one stream; several receivers on one router; malformed or missing messages | each request gets its answer, unchanged and in order |
| OPRF (common/apsi/oprf) | the key; the unblinding factors of a query | `process_items`, `ProcessQueries`, `process_responses`, `ComputeHashes` | both sides must arrive at the same hash | the hash does not depend on the blinding |
| Encodings (common/apsi/util: db_encoding, interpolate, label_encryptor) | none | pure functions | bit offsets, padding, unsigned wrap-around | decoding undoes encoding |
| `PSIParams` (common/apsi/psi_params.cpp) | the parameters | `initialize`, `Load`, `save` | many conditions, checked on both sides | what is accepted can be evaluated |
| Command line tools (cli) | the OPRF key of the sender's process | load or create, save, serve | dies between two parts of a file | serves under the key of its data |

How they interact. A user thread calls `SenderDB`; `insert_or_assign` and
`remove` take the writer lock and hand one task per bundle index to the thread
pool, which a reference-counted `ThreadPoolMgr` creates and destroys; a task
changes the `BinBundle`s of its index, each of which guards its bins with cuckoo
filters. A receiver sends an operation over a channel; the dispatcher receives
it and runs it on its own thread: for a query it takes the reader lock, announces
as many result packages as there are bundles, computes the powers of the query
along the powers DAG on the pool, and has one task per bundle evaluate a cache
and send a package. The receiver's workers, tasks of the pool of its own process,
take the packages from the channel and merge them.

The hazards that follow from this, with the line at which each bites and the
properties that would catch it, are listed under `hazards` in `PROJECT.json`.

## 2. Modules

```
BinBundle ---> BundleSet ---> SenderDB ---> MCSenderDB     SenderDB implements AbstractDB
                   |                                       SenderDBProofs
                   +--------> SavedDB  ---> MCSavedDB      SavedDBProofs
                   |                                       (both on BundleSetProofs)
                   +- - - - > Matching ---> MCMatching     (an instance of it)
PSIParams, Encoding, Polynomials --^
ThreadPool ---> MCThreadPool                               ThreadPoolProofs
PowersDag ----> MCPowersDag                                PowersDagProofs
CuckooFilter -> MCCuckooFilter                             CuckooFilterProofs
QueryProtocol -> MCQueryProtocol                           QueryProtocol implements AbstractPSI
                                                           QueryProtocolProofs
Messages --> StreamChannel, ZMQChannel --> Wire -> MCWire  WireProofs
```

Three of them look at one query, each at another side: *SenderDB* at the lock and
the threads of the sender's process, *QueryProtocol* at the messages and the
receiver's threads, *Matching* at the values. What one of them takes for granted
another one checks: that the caches a query reads belong to one database
(`ReadersSeeCommitted`), that all packages arrive once (`PackagesBalance`), that the
channel delivers them unchanged (`InOrder`), that the powers are right
(`PowersAreRight`), and that the values decode to the items and labels
(`RecordsAreRight`).

Each module keeps the names of the code. A definition `Bug_X` that stands before
`X` is a form of `X` with a plausible bug in it; the properties are tried against
these to see that they notice. `map` in `PROJECT.json` names the lines every other
definition stands for.

**BinBundle** and **BundleSet** (operators) and **SenderDB** (state machine). `hashed_items`,
`item_count`, `bin_bundles`, `stripped` are the members of the class; `writer` and
`readers` are the reader-writer lock. A call of a thread moves through `pc`:
`Enter` (the check of `stripped_` that is made before the lock), `Lock` (lock and
the pass over the data that updates `hashed_items_` and `item_count_`), `Dispatch`
(one task per bundle index), `Work` (a pool thread handles one item of one task:
`insert_or_assign_worker`, `remove_worker`), `Join` (the futures, in index order),
`Finish` (`generate_caches`, unlock), or `ConvertFails`, `Unwind` when something
throws. `Unwind` is where the interesting states come from: nothing that was done
is undone, and if another `ThreadPoolMgr` keeps the pool alive the remaining tasks
go on as `orphans`, whose captured references dangle: `OrphanLost` and `TaskLost`
are the outcomes in which they find none of their items. `Clear` and
`SetDataInsert` are the two halves of `set_data`. `strip()` is `StripBegin`, one task
per bundle (`StripTask`; `Regenerate` when a stale cache makes the task wait for tasks of
its own, on one of the `PoolThreads`), and `StripEnd`. `QueryLock`, `QuerySend`, `QueryEnd`
and `QueryLeave` are what `Sender::RunQuery` does with the lock, the package count and the
caches. It takes the reader lock a second time to count the bundles (sender.cpp:153,
sender_db.cpp:637), which is undefined for the lock of the standard library: `QuerySend` is
the outcome where it is granted, `QueryBlocks` the one where readers queue behind a writer
that waits. A
felt is a model value, and the cache of a bin is a copy of the bin: the roots and
labels its polynomials interpolate. `remove_if` is modelled by what the standard
library's does to the tail of the vector, because `remove()` uses that tail.
`committed` is a history variable: what queries would have answered when the lock
was last free. So is `torn`: the items that a call named which ended with an exception
half-way, and those of which an insertion has left two copies. Nothing is said of their
labels until the database is cleared.

**AbstractDB** is a map from items to labels whose calls take effect at one moment
between invocation and return. Which calls may end with an exception is part of it
(`Throw`): one under way when the database is stripped; a labeled batch that names an item
twice, a torn item, or a known item before a new one (`Orderly`); a removal that names an
item twice, an absent one or a torn one. Such a call tears the items it names and leaves
the others as they are. A batch without labels into a database that is not stripped may
not throw at all, nor may an orderly one with labels; and a query may fail only while an
item is torn. `ImplementsAbstractDB` says that the code keeps to this.

**SavedDB** puts a database on disk. A file is a sequence of parts (header, bundles,
key), each a buffer behind its size, the last one perhaps cut. The process is that of
the command line sender (`StartSender`, `LoadSucceeds` or `LoadFails` and `LoadCsv`,
`SaveBegin`, `SavePart`, `Serve`) or a program that links the library (`StartProgram`),
which also changes what it has loaded (`InsertNew`, `RemoveOne`, `RemoveTwo`, `Strip`).
`Crash` may come at any moment, within a part too. A buffer that lost its end is filled
with zeros by `read_from_stream`; "early" and "late" say whether FlatBuffers notices,
and since a buffer is written back to front, what a late cut loses is what was created
first: the last felt of the first bin. `content` and `data_key`, the map the calls have built and the key its items were
hashed with, are history, and so are `garbled` and `doubt`: whether a stream has ever
hidden that felts were missing, and the items whose answers no call has promised since.
They travel with the file, since one process may save again what it has read damaged.
The bound `MayHide` keeps a bundle from being damaged twice, since two zeros in one bin
make the next interpolation of its labels throw.

**ThreadPool** is the pool and its manager. A critical section of `queue_mutex`
is one step; `consumers`, `producers` and `idlers` are the wait sets of the three
condition variables, from which a thread may also wake for no reason
(`SpuriousWake`). `Acquire` and `Release`/`Destroy` are the constructor and
destructor of `ThreadPoolMgr`, the latter holding `tp_mutex` while the pool
drains. Clients, and the bodies of tasks, are short programs of such operations,
so a task may use the pool it runs on.

**PowersDag** is `configure` (`Configure`, one `AddNode` per target power,
`ConfigureEnd`), and `parallel_apply` with the function `ComputePowers` gives it:
each worker looks for a node that is `Uncomputed`, exchanges it for `Computing`,
looks at its parents, multiplies or puts the node back. A ciphertext is the
exponent of the query it holds.

**CuckooFilter** is the filter of one bin, driven as `BinBundle` drives it. One
turn of the loop in `add_index_tag` is one step, the tag that has no place yet is
in `insertion`; which tag `rand()` kicks out is the parameter of `Kick`. The hash
of felts and of tags is a parameter.

**QueryProtocol** is the conversation: `Receiver::RequestParams`, `RequestOPRF`
and `request_query` with its workers (`Claim`, `ReceiveResult`, `CheckDuplicates`,
`Merge`), the loop of `ZMQSenderDispatcher`, and `RunParams`, `RunOPRF`, `RunQuery`
as the receiver sees them; an OPRF request that `RunOPRF` cannot process is logged and
not answered (sender.cpp:89-97). `inbox` and `outbox` are the ZeroMQ queues, one pair per
receiver: ordered and lossless, because the code raises the high-water marks for
that. A receiver is a new one after a call that threw, as in cli/receiver. **AbstractPSI**
says what a query promises: the answer is the intersection with the sender's set at
one moment between call and return, or there is none.

**Messages** has `save` and `load` of every message: what each `load` throws, on a buffer
of another kind, for another context, or filled with zeros. **StreamChannel** is one
direction of a channel over a stream: writers hold `send_mutex` over the two units of a
message, readers `receive_mutex`; a receive that rejects the header returns and leaves
the body. The stream is a pipe or a `stringstream` (`setup.piped`); the writer may end
within a unit. **ZMQChannel** is the ROUTER and DEALER sockets: whole messages, routed by
the `client_id` that is kept with an operation. **Wire** puts both behind one specification,
each behaviour of which uses one of them, and states for both what a channel promises.

**PSIParams** has the checks and derived values of `initialize` and both `Load`s.
**Encoding** is `db_encoding.cpp` and `label_encryptor.cpp` on bytes of `W` bits, with the
two forms of `copy_with_bit_offset` that are called. **Polynomials** has roots and Newton
interpolation over the field, the batched polynomials, `ComputePowers`, `eval` and
`eval_patstock`; a ciphertext is a value per slot, its form and level, and whether SEAL
has accepted the operations it came from. **Matching** composes the three with the bin
bundles: `SenderLoads`, `ReceiverLoads`, `BuildDB`, `Blind`, `AnswerOPRF`, `Unblind`,
`CreateQuery`, `AnswerQuery`, one `ProcessPart` per package in any order, `Finish`. A curve
point is its discrete logarithm.

## 3. Runs

| Run | Instance | Distinct states | Question |
|---|---|---|---|
| `failures` | three threads, seven unlabeled scripts of up to three calls a thread: fill, shrink and refill; calls that throw half-way; `strip` and `clear` against insertions, `strip` with two stale caches | 11,233 | Do the lock, the item count and the bins survive exceptions, which calls may throw, does every call return? |
| `labeled` | every sequence of four calls of one thread out of eight, then a batch and a query; three threads that fill, shrink, replace and strip while others query; a bundle with room behind the one that holds an item | 69,941 | Can labeled bins be interpolated, do `get_label` and the caches agree, do queries see committed data only, is the database a map whose calls are atomic, which batches may throw? |
| `persist` | two files, three processes one after the other, two changes in all, three labeled items | 1,998,104 | Does what loads answer as what was saved, are its members restored, which files load? |
| `pool` | two clients, three tasks (one throws), pools of one to three threads, a queue limit of one | 33,792 | Is a wake-up lost, a task dropped, a client left waiting? |
| `powers` | three workers on two threads, `configure` called twice, all sources for three sets of powers and six special cases | 485,191 | Is the DAG of least depth; do the workers compute it right, without a race, and end? |
| `cuckoo` | four felts, four buckets of two slots, three turns of the loop | 147,818 | Does the filter deny a felt of the bin; does its counter stay exact? |
| `query` | two receivers (one in the sender's process), two workers each, a query with a repeated item, up to two bundles, a database that changes, OPRF requests and queries that may fail | 416,854 | Are packages lost or left over, does every call end, is an answer one look at the database? |
| `wire` | a stream with two writers and two readers, two messages, three calls; a router with two clients, one operation each, two replies, three calls | 934,271 | Are messages mixed up, changed, lost or sent to the wrong receiver; how far does a rejected header lead astray? |
| `matching` | 25 documents of parameters, four databases, four queries, two keys, two blinding factors, two draws of nonces | 34,450 | Is an item reported exactly if it is there, with its label; can every accepted set of parameters be evaluated; when is a result given up? |
| `overwrite`, `nested`, `keyless` | the smallest script that shows it; `keyless` is the instance of `persist` | | the disagreements of section 6 |

Why the bounds are enough. *SenderDB:* two bundle indices are needed for two tasks
at once and for the order of the joins; two locations per item because an item is
stored at each; the items are chosen so that two share a felt and both locations
(they need two bundles when labeled), and all of them meet in one bin, whose limit
of three is reached with two items. Scripts replace a free choice of calls:
they fill, shrink and refill the bundles, name items twice, name absent items, known
items before new ones and the other way round, make room in a later bundle, and strip in
between, which is what the code distinguishes. With two pool threads (`PoolThreads`) two
bundles with stale caches are enough to leave `strip()` without one, and one is not.
*SavedDB:* three items, two of
which share a felt and so open two bundles at both indices: bundles of several indices in
one file and both orders of two at one index; one process to write, one to read and save
again and one to read that; two changes reach a failed one and the next that makes its
caches good, and a save with a stale cache.
*ThreadPool:* a queue limit
of one makes two tasks wait or double it; three workers are the least with one that
leaves, one that must wait for it and one that stays; a program lowers the limit
below the number of queued tasks. *PowersDag:* six powers give chains of depth three
and several parents of equal depth; three workers can hold a node, miss its parent
and overtake each other, and two threads are fewer than the workers. *CuckooFilter:*
two felts have the same tag (one because its tag would be zero), six copies fit in
a bin of limit seven, and three turns reach every branch of the loop, among them a
second use of the overflow slot and a refused `add`. *QueryProtocol:* two packages
and two workers make every order of claims, receipts and merges; two calls let one
follow another on a channel and two receivers overlap. *Wire:* two messages can be
interleaved, cut, or left half read, and the third call shows where the second began;
every kind of message occurs, under the caller's context and under another one, from a
sender of this version and of another. *Matching:* bytes have three bits and field
elements four (the field has 17 elements), so that pieces begin at every offset, end
within a byte and span two; three felts per item leave two of the eight slots unused;
a bin takes seven items, one below its limit, which
gives polynomials of degree seven: above, at and below a multiple of the high degree for
the low degrees 0, 2, 3, 4 and 8. All items compete for location 0, one item is put
together from the felts of three others, one shares a felt with another, one is zero,
and labels are shorter and longer than the label size. Every phase a query can end in is
reached. The documents break each condition once. `MaxCalls`, `MaxConfigures`, `MaxStarts`,
`MaxOps`, `MaxSent`, `MaxAsked`, `MaxReplies`, `MaxReceives`, `keys_made` and the scripts bound
histories only; no counter of the code is capped.

Deadlock is looked for in every run but `nested`, whose point is that the system
stops, and `wire` and `matching`, where nobody need send, receive or ask again. In a final
state the other modules allow a stuttering step. `persist` and `wire` use symmetry: of the
two files, and of the writers, the readers and the clients, which differ in name only;
neither run has a liveness property.

Fairness. Every liveness property assumes weak fairness of each thread's own
steps and nothing more: the operating system runs a thread that can run. For tasks
on the pool this presumes that the pool gives each task a thread at last, which is
what `pool` shows (`ClientsEnd`), and where a model has fewer threads than tasks
(`PowersDag`, `QueryProtocol`) a task waits for one in the model too. Nobody is
forced to call, to change the database or to stop the dispatcher, and no spurious
wake-up is relied on. No lock is assumed to be fair: calls are finitely many.

## 4. What holds, and on which conditions

*The database.*

* Queries read one committed state of the database (`ReadersSeeCommitted`), until a call
  that names items ends with an exception, and again after a `clear()`. A call that throws
  skips `generate_caches`: the next query finds a stale cache, and throws when it has
  announced its packages. And if another `ThreadPoolMgr` keeps the pool alive, the tasks that
  are left go on under the reader's lock of a query.
* The calls are atomic (`ImplementsAbstractDB`). The label of a known item may survive its
  overwriting once there is room in a later bundle (run `overwrite`): a query then finds
  both, and the item is torn. The scripts of `labeled` make that room and go on from there.
* A labeled batch that names a known item before a new one throws: `remove_if` has moved
  the new item forward, the label of the element left behind is empty, and its conversion
  fails (sender_db.cpp:775-807). Nothing in sender_db.h speaks of an order. The new item is
  then in `hashed_items_` and in no bundle, so `has_item` says yes and `get_label`
  ends with the `logic_error` of which the comment at sender_db.cpp:1037 says "It shouldn't
  be possible". `GetLabel` returns `LogicError` there; `LookupAgreesWithQueries`
  shows that no item reaches that state but those of a call that threw.
* A call may fail to return in two ways, which `EveryCallReturns` names. `PoolStuck`:
  `strip()` with as many stale caches as the pool has threads (run `nested` shows the pool's
  side), with the writer lock held, so that all others wait too. `LockStuck`: a query that
  takes its second reader lock behind a waiting writer, where the lock prefers writers.
* `remove()` throws for an item that is not in the database (sender_db.cpp:934: the
  tail of `remove_if` is not erased), although its log (950-954) says that absent
  items are ignored. `AbstractDB` permits the exception for such items only; `failures`
  shows what it leaves behind.
* A bin takes one item fewer than `max_items_per_bin`, since its polynomial has one
  coefficient more (`PolynomialsFit`). With `max_items_per_bin` = 1 that cannot hold:
  every insertion opens a bundle, and `load` refuses what was saved (bin_bundle.cpp:1322-1329).
* What was saved loads, whatever calls came before, and answers the same, in whatever
  order the bundles arrive (`AnswersSurvive`, `MembersSurvive`; for every instance that a
  save that has ended leaves a file that loads, `EndedSavesLoad`). A file that was cut
  before its last bundle was written out does not load (`LoadsIffComplete`) if the stream
  has exceptions enabled, as the command line tool does; without them a last bundle cut
  late loads with felts of zeros, and is right only until its bins are used. If that
  process saves it again, the new file loads in any stream, and nothing tells it from a
  good one: TLC found this against an earlier form of the two properties, which excused
  the process that had read the damage only.
* A file of a database that was not stripped cannot be served: the constructor of the
  dispatcher reads the key through the pointer it has just moved from
  (sender_dispatcher.cpp:37), and the process ends. The command line tool always strips.
* A failed task of `Load` leaves the others running with references to mutexes that are
  gone (sender_db.cpp:1243); the model counts the load as failed and stops there.

*The cuckoo filter* denies nothing that the bin holds until `add` has been refused,
which takes a tag that found no place in 1000 turns and another `add`. `BinBundle`
ignores the refusal, and from then on the item is in the bin and not found; TLC
reaches that state in the small instance of `cuckoo` and `NoFalseNegative`
excludes it by `refused`.

*Threads.*

* `request_query` in the process of the sender needs more threads than
  `GetThreadCount()`: its workers hold theirs while they wait. The tests set twice
  the number, and `query` does the same; with `PoolThreads = ThreadCount` TLC finds
  the deadlock. For the same reason a local receiver whose query failed keeps its
  threads for good.
* An OPRF request or a query for which the sender logs an exception is never answered, and
  its receiver waits for ever: `CallsEnd` is about the others, the calls of other receivers
  that come behind it included.
* `configure` accepts targets that cannot be computed: such a target gets the parents
  p - 1 and 1, and higher targets may then be written through it, because that pair looks
  shallow. With the sources 1 and 10 and the targets 1, 3 and 10 to 14, 14 becomes
  3 + 11, of depth 3, although 3 is no sum of two targets and 14 = 1 + 13 could be
  computed with depth 4. `DagIsOptimal` is therefore about the targets up to which every one can
  be computed (`Computable`); in the sets that `create_powers_set` makes that is all of them.
* When the function given to `parallel_apply` throws, its node stays `Computing` and the
  other workers look for work for ever (powers.h:258): `ApplyEndsUnlessThrown`.

*Channels.*

* `InOrder` excepts the last message of a writer that died while sending it: its zero
  bytes may load as data. `Realigned`: after a rejected header the next call fails, and
  the one after that is back in step.
* A `stringstream` that is read when it is empty stays failed, also when more is written:
  nobody clears its state. The model keeps that (`failed`).
* `ZMQChannel::bind` and `connect` set `end_point_` first, so a channel whose bind failed
  counts as connected; it can be disconnected and not bound again.
* channel.h:50 promises a null pointer on failure; `ZMQChannel::receive_operation`
  dereferences the one it gets (zmq_channel.cpp:308). Its header says not to use it, the
  repository does not, and the model has `receive_network_operation` only.
* `set_socket_options` raises the router's high-water mark to 70000 "to ensure messages
  are not dropped"; beyond it a router drops. The model's queues are unbounded.

*A query's values* (`matching`).

* Parameters with `ps_low_degree` = 1 are accepted (README.md:695 of the repository calls
  the value "meaningless to use") and then cannot be evaluated: the powers are brought into
  the forms of Paterson-Stockmeyer, and `ProcessBinBundleCache` does without it.
  `QueriesAreAnswered` excepts that value; all others work.
* An item is matched if its field elements lie in one bundle at its location, which
  can come about from those of others; the sender's `has_item` and `get_label` look into
  `hashed_items_` first and know better. If the item is also there itself, the receiver finds it twice and gives up the
  whole result (`OnlyCollisionsAbort`). With 80 bits or more per item this is unlikely,
  and the model makes it happen.
* An item that stands twice in a query is found at its last place only (also in `query`).
* `copy_with_bit_offset` does not keep what its comment promises (db_encoding.cpp:147-150,
  "All other bits in dest are unchanged"): `high_diff` is unsigned, wraps, and bits above
  the range are or-ed in. Its callers write from low to high into zeros and the bits that
  come in are those the next piece brings, so that `RecordsAreRight` holds.
* `ECPoint::operator=` copies one byte of a point (ecpoint.cpp:147). Nothing that reads a
  point calls it; `Matching` moves points as values.

## 5. Proofs

All theorems are about the specification of the module they extend, for every value of
the constants that satisfies the module's assumptions. These are positive sizes, disjoint
sets of names, scripts of the right type, and besides:

* `BundleSetAssumption`: the felt that stands for missing bytes is none of an item's. (The
  zero that really takes its place could be one; whether a bin may then hold it twice is
  outside the model.)
* `SavedDBAssumption`: "no file" is not a path; "absent" is not a label, nor what an item
  has in a database without labels; what is put into a labeled database has labels.
* `RowsAssumption`: a bundle has room for whole rows (`bins_per_bundle_`, psi_params.cpp);
  an item has a location, and `all_locations()` gives none twice.
* `LocationsAssumption`: the locations of items are rows of the table, which the bundle
  indices cover (psi_params.cpp:179).
* `SenderDBAssumption`: the string `remove_if` leaves behind is not a label of a caller.
* `ScopesAssumption`: a `ThreadPoolMgr` is an object of some scope. It is destroyed once,
  after its construction, and the pool is used through one that exists.
* `PowersDagAssumption`: the source powers, the keys of a map, are finitely many.
* `XorAssumption` and the type of `Hash`: what CuckooFilter takes for granted of `^` and of
  the hash functions.
* `TrafficAssumption` of *Messages*: the messages have the fields the classes of the code
  have, and the sizes of labels and nonces are within the limits SenderDB's constructor sets.
* `StreamAssumption`: what stands for a free mutex is not a thread.

| Theorem | Says |
|---|---|
| `SenderDBProofs!TypeCorrect` | the types of the database and its callers, down to what bins and caches hold (`TypeOK`) |
| `SenderDBProofs!LockIsExclusive` | whoever is in the locked part of a call holds the lock, and a writer is alone (`LockExclusion`) |
| `SenderDBProofs!ItemCountIsExact` | `item_count_` is the size of `hashed_items_` (`ItemCountMatches`) |
| `SenderDBProofs!QueriesSeeOneDatabase` | queries read the database of the last completed call, with no stale cache, until a call that names items throws, and again after a `clear()` (`ReadersSeeCommitted`) |
| `SenderDBProofs!PolynomialsAlwaysFit` | the polynomial of every bin fits the limit (`PolynomialsFit`) |
| `SenderDBProofs!PointsAreDistinct` | no labeled bin holds a felt twice (`LabeledBinsDistinct`) |
| `SavedDBProofs!MembersAlwaysSurvive` | item count, hashed items and bins of a database that was loaded and changed agree with its content; no stale cache is served (`MembersSurvive`) |
| `SavedDBProofs!WholeFilesLoad` | a stream that reports errors takes the files whose bundles are all there, and no others (`LoadsIffComplete`) |
| `SavedDBProofs!EndedSavesLoad` | a save that has ended leaves a file that loads |
| `SavedDBProofs!AnswersAlwaysSurvive` | a labeled database that was loaded and changed, by however many processes, answers with what the calls have built (`AnswersSurvive`), if no item can be put together from others |
| `ThreadPoolProofs!TypeCorrect` | the types of the pool, the manager and their users (`TypeOK`) |
| `ThreadPoolProofs!NoWakeUpIsLost` | queued tasks have a worker that is awake (`WorkIsNoticed`) |
| `ThreadPoolProofs!ManagedPoolIsAvailable` | `ref_count` counts the managers, and whoever has one has a live pool (`PoolIsAvailable`) |
| `ThreadPoolProofs!TasksInFlightAreCounted` | `in_flight` counts the accepted tasks that have not ended (`InFlightIsExact`) |
| `ThreadPoolProofs!NothingIsDropped` | the destructor returns only when all tasks have run (`ShutdownRunsEverything`) |
| `PowersDagProofs!TypeCorrect` | the types of the DAG and of the traversal (`TypeOK`) |
| `PowersDagProofs!DagIsDepthOptimal` | every power that can be computed has the least depth, whatever the sources (`DagIsOptimal`) |
| `PowersDagProofs!ComputedPowersAreRight`, `ProductsDoNotRace`, `AllPowersOnReturn` | `PowersAreRight`, `NoDataRace`, `ReturnsAllPowers` |
| `CuckooFilterProofs!FilterTypes`, `NothingAddedIsLost`, `ItemCountIsExact` | `TypeOK`, `NoFalseNegative`, `ItemsAreCounted` |
| `QueryProtocolProofs!TypeCorrect` | the types of the conversation (`TypeOK`) |
| `QueryProtocolProofs!OnlyAwaitedArrives` | a call finds on its channel only what it waits for (`OnlyAwaited`) |
| `QueryProtocolProofs!PackagesAreBalanced` | as many packages come as are claimed (`PackagesBalance`) |
| `QueryProtocolProofs!AnswersAreOneLook` | the conversation implements AbstractPSI (`ImplementsAbstractPSI`) |
| `WireProofs!ChannelsKeepOrder` | what is received, over either, is what was sent (`InOrder`) |
| `WireProofs!ChannelsGoThrough` | what a call may take it returns (`GoesThrough`) |
| `WireProofs!StreamRealigns` | a rejected header costs one more call (`Realigned`) |
| `WireProofs!AskersAreAnswered` | a reply reaches the receiver that asked (`AnswersReachAsker`) |

How they go.

*SenderDB.* `LockExclusion` is inductive with the types of the lock and of `pc`.
The item count is inductive with the types of the scripts and calls (`CountInv`); the
work is in one step: a repeated item of a batch is kept at its first occurrence only,
so the positions `remove_if` keeps and the items they hold are equally many
(`ItemsAtCardinality`).

`CalmInv` is what queries rest on: while no item is torn, only a writer that waits for them
has tasks, a free lock means valid caches that answer as they did at the last unlock, and
the bundles a query has counted are still there. Two actions could break it. `Unwind` tears
the items its call names; that there are any is `CallersInv`: tasks have callers, and a call
that names no item has no task and reaches its end (`EmptyCallsPass`). `Clear` mends what is
torn only when no orphan is left, since an orphan would write into the new bundles.

`TypesInv` is about the contents: every bundle at every index is good (`GoodBundle`), that
is, its bins and caches hold felts of items with labels that go with them, no bin is at
its limit, and no labeled bin holds a felt twice. It has to hold in the middle of calls,
after failures, and for tasks nobody waits for. The argument is therefore about one item of
one task, the step all of these share: `WorkItem` takes good bundles to good bundles, whoever
runs it. An insertion either overwrites labels in place, or goes where the dry run was positive
and below the limit, which is where no labeled bin has the felt. A removal takes an element
out of a sequence and drops the bundles that are empty. The functions that are defined by
recursion over a bin or a set of bundles are shown to be what their equations say place
by place (`RecursionExists`, `UpTo`). Stripped bundles stand beside others only while
`strip()` is under way or once `stripped_` is set (`StripGoesOn`); the parameter `may` of
`GoodSet` says whether there can be any.

*SavedDB.* It stands on the same lemmas about bundles, which are therefore in a module of
their own, *BundleSetProofs*. `SavedInv` says that the database in memory is good
(`GoodDb`: good bundles, counts that agree with the content, and caches made of their bins
unless damage was hidden), and that every file is the beginning of what `save()` writes of
a good one (`GoodParts`), at whatever part the process died. While a save is under way, what
is in the file and what is still to be written make it whole (`WholeDb`): each part moves from
the one to the other. A good bundle becomes a part that passes every check of `load`
(`SavedPartIsGood`): the batched polynomials have as many coefficients as the largest of a
bin, an interpolation polynomial one fewer than the matching one, and none more than the limit.
This is where `MaxBinSize` > 1 is needed, the hypothesis of `WholeFilesLoad` and
`EndedSavesLoad`; section 4 says what the code does at 1. Whatever order the tasks of `Load`
end in, each index gets good bundles (`LoadedIsGood`), with a felt missing if the cut was
late (`ZeroFilledIsGood`). The changes go through `WorkItemIsGood`, item by item (`RunTaskIsGood`); of an
item that comes twice only the first counts (`FirstsDiffer`), so the item count grows by
the number of new items.

`AnswersAlwaysSurvive` has two hypotheses: the database is labeled, and `ItemsApart`: at each
of its locations an item has a felt that no other item with that location has at the same place.
That is to say that it cannot be put together there from the felts of others. The property is
false otherwise (section 4, on `matching`): the code compares felts, not items. The hypothesis is
about the items and not about what happens to them, and 80 bits or more per item are chosen to
make it likely. It lets two items share felts, which is what makes them open new bundles; the
items of `persist` do, and TLC checks there that they are apart.

A label is stored in as many parts as the item has felts, and the argument is that they never
come apart. A row (`RowsIn`) is an item with its label at a bin where the parts of all its
felts are. `SoundBins` says that bins hold nothing but rows, and these only where their
items have a location. In such bins felts that together look like an item are a row of that item
(`HoldsRow`): the part that nobody else has belongs to one row, and the whole row is in
the bins. An insertion therefore adds exactly one row and a removal takes exactly one
(`InsertRow`, `RemoveRow`), although other rows share their bins, and both leave
sound bins. `RightInv`, which is inductive together with `SavedInv`, says of the database in
memory, of every file and of what a save has still to write that the bundles are sound and
that for each item the calls know, exactly one bundle at each of its locations has a row of it,
with the label of that call; for the others no bundle has (`Told`). What saves, loads and the order of
`Load`'s tasks do is to rearrange the bundles at an index (`Rearranged`), which `Told` does not
notice. An item is left out (`doubt`) from when a call that threw has touched it, and all are once
bins with felts hidden by a lenient stream are used.

*ThreadPool.* `WorkIsNoticed` alone is not inductive: the worker a notification
wakes might have to leave. `PoolInv` adds that the manager's count says whether there
is a live pool (`MgrInv`), and that the workers are numbered without gaps, that one at
least stays while the pool lives, and that only workers that look for work or the
destructor sleep on `condition_consumers` (`WorkersInv`). A worker that leaves wakes
all the others; a worker that takes a task is itself awake.

`ManagedPoolIsAvailable` counts: `Owed` is the number of managers an actor has still to
let go, less those it has still to take, and over all actors it adds up to `ref_count`,
one less for an actor that waits in the destructor. A client that an exception cuts short
lets go of the managers it has and of no others, which is what `Unwind` says; programs that
are `Scoped` stay so through every step.

`BooksInv` keeps the books for the tasks: `in_flight` is the number of tasks in the
queue and of those workers have taken and not yet ended; a task that is queued is in the
queue, and one that runs is with a worker. The destructor waits until no worker is left,
and the last one leaves only when the queue is empty.

*QueryProtocol.* `CallInv` says for each receiver where its operation is: on the way, with
the dispatcher, answered, announced, or being taken in by the workers; in the last two
cases the packages still expected are those on the way and those still to be sent,
strictly more once the sender has logged an exception (`Balanced`). When all workers have
left, none is expected, so none is on the way and the sender has not given up: the next
call starts with an empty channel. A receiver whose query the sender gave up waits for ever
or ends with an exception, and makes no further call.

*AbstractPSI.* The answer of the abstract query is fixed when the sender, with its lock held,
announces the packages: this step maps to `Evaluate`. From then on the answer is spread over
what the receiver has merged, what its workers hold (`Held`), what is on the way
(`OnTheWay`) and what the sender has still to send (`ToCome`). `Carried` says that none of
it is left from another query; each step that moves a package leaves the union as it is and
maps to a stutter. The join of the workers maps to `Return`, since by `CallInv` nothing is then
held, on the way or owed; an exception on either side maps to `Fail`.

*PowersDag.* `PowersInv` says of the DAG that the parents of a node add up to its
power (`DagInv`, for which the minima in `configure` are shown to exist), and of the
traversal that a node that is `Computing` has one owner, that a worker that
multiplies has parents that are `Computed`, which is final, and that a worker leaves
only when all is done. `configure` forgets no node, so the proof
of `TypeOK` is about all that earlier calls have put into `nodes_` (`AllTypes`): a node's depth
is less than its power.

For the depth, `DepthInv` says of every node that has been written that no pair of targets
has a smaller one than its parents have (`LeastDepth`). It stays so because the loop goes
upwards: what a node was compared with lies below every pending power. When no pair beats
p - 1, the only pair is p - 1 and 1, which is what the code falls back on
(`OptimalIsLeast`). `DagIsOptimal` compares this with the levels of products: by
induction on the power a target is reached at the level of its depth, and by induction on the
level not earlier (`LevelOfDag`). The induction theorems of the library take an operator, which
the provers cannot instantiate; the proofs go by the least counterexample instead
(`LeastNat`, from the well-foundedness of <). The same shows that the recursive function `Levels`
has the value its definition says (`IterationExists`, `LevelsAre`).

*CuckooFilter.* That a felt is found again cannot be shown tag by tag, since tags
are shared and moved. A tag is always in a slot, in the overflow slot or in the hand
of `add_index_tag`; the pairs of index and tag that a look-up cannot tell apart form
classes, closed under the other index (which is where `i XOR h XOR h = i` comes
in). `FilterInv` says that as many places hold an entry of any union of classes as the
bin holds felts of it: a kick exchanges two entries, a turn of the loop stays in the
class, `add` and `remove` change both sides by one. A class the bin has a felt of is
therefore somewhere, and between two calls that is where `contains` looks. For all
classes together it gives the item count.

*ZMQChannel.* `RouteInv` says of every receiver that what is on the way to it and what it
has read are replies to its own operations with increasing numbers, those it has read
before the others, and that a held operation's `client_id` is that of its asker: a reply
goes behind all others with a higher number, a read takes the first. `AskInv` is the same
of the way up, where an operation keeps its number through `save`, `load` and `Hold`.
`RefusedInv` adds that what a call has refused it could not take; this rests on
`OperationLoads`, `ResponseLoads` and `ResultLoads`, which say that a message that was made
under the caller's parameters and has the expected type passes every check of its `load`.

*StreamChannel.* `StreamInv` looks at the numbers of the messages along the way: those read,
then those in the stream, then the last one sent, of which a writer may still have units
to write. They never decrease, and a body ends its message: what comes behind it has a higher
number. This rests on the lock: a writer with units left holds `send_mutex`, so they are of
the last message and no other writer adds to the stream. On the reading side a unit whose content loads
is a body, since a header never passes for one (`BodyLoads`); the reader's lock is not
needed for the order, as every call takes the first unit there is. A unit that is cut short is
of the last message, because its writer has ended.

That a call returns what it may take does need the reader's lock. `FlowInv` lays out the
stream (`LayoutInv`): behind a header stands the body of its message, unless a writer has
it still to write; a body without its header before it stands behind nothing of another
number; only the last unit is cut. A call that has read a header holds the lock (`CallsInv`),
so it is the only call there is, and the body it announced is the next unit of the stream or
of the writer. `AcceptableLoads` says that the body of a message a call may take passes every
check of its `load`, so that what was refused could not be taken (`RefusedInv`). A call that begins
at a body reads a unit of another kind than it asks for (`StrayUnit`), and by the layout
what stands behind it begins a message (`NextMessageBehind`).

*Wire.* Every step of `Wire` is one of the channel in use and leaves the other alone, so that
the invariants of both channels are invariants of `Wire`.

*Only model-checked.*

* Liveness under fairness, which the prover does not reach: `EveryCallReturns`,
  `ClientsEnd`, `ApplyEndsUnlessThrown`, `CallsEnd`.
* The properties of `Matching`, which is built from the bit operations of Bitwise and
  recursive operators.
* `LookupAgreesWithQueries` and `ImplementsAbstractDB`, which are not theorems of the
  specification: an item that can be put together from the felts of others, which
  `matching` shows and the items of `failures` and `labeled` are not, refutes both.

`AnswersSurvive` of a database without labels is neither proved nor checked. There a bin
holds a felt as often as items that have it were put in, and nothing tells whose it is; the
instance of `persist` is labeled. What is proved of such databases is `MembersSurvive`,
`LoadsIffComplete` and `EndedSavesLoad`, which do not ask for labels.

## 6. Where code and documentation disagree

Each is a run whose property states what the documentation says and which TLC
refutes; `findings` in `PROJECT.json` quotes the lines.

* `overwrite`: `insert_or_assign` scans bundles from the last to the first and
  inserts a second copy of a known item into a later bundle with room, before it
  comes to the bundle with the old label.
* `nested`: `strip()` with stale caches dispatches from tasks of the pool to the same
  pool and waits there; with no thread left it does not return.
* `keyless`: a file that ends before the OPRF key makes the command line sender report
  that it could not load the database, and serve it all the same, under a new random key.

## 7. Not modelled

* FourQ (vendored curve arithmetic) and SEAL: their results are taken as algebra. Of SEAL's
  noise only the level of a ciphertext is kept; whether parameters leave enough noise budget
  is a question about SEAL.
* `Polynomials` computes the powers of a query without choosing a DAG; *PowersDag* has
  the choice. Kuku's table is external: `CreateQuery` may give up whenever two items of a
  query have a location in common.
* The byte counters of channels (relaxed additions nobody decides on), ZeroMQ's high-water
  mark, `get_packing_rate` and the move operations of `SenderDB`: what they could break is
  among the hazards.
* `Sender::RunQuery` with a receiver's relinearization keys of another key pair, and the
  `reset_keys` of a receiver while one of its queries is under way: the values of ciphertexts
  under the wrong key are noise.
* Parsing of command lines, of JSON and of CSV files beyond what a row comes to; logging and
  the stopwatch: no state of the protocol.
* What a thread does with freed memory after an exception has left the scope of
  its captures, beyond `OrphanLost` and `TaskLost`: undefined behaviour; the query
  models say nothing of such a receiver or task afterwards.
* In *SenderDB*, the limit of the pool's threads for other tasks than those of `strip()`:
  they do not wait for one another there, and the pool as such is *ThreadPool*'s.
* The bytes of FlatBuffers and the values of hash functions: buffers are told apart by
  kind, content and whether they were cut; hashes are parameters or distinct values.

## 8. Plan

What is left is proof.

1. *SenderDB*: `LookupAgreesWithQueries` for items that cannot be put together from one
   another (`ItemsApart` of *SavedDBProofs*), and with it the step lemmas of the refinement
   to AbstractDB.
2. *SavedDB*: `AnswersSurvive` without labels, which needs a count of the items behind
   each entry of a bin.
