------------------------------ MODULE SavedDB ------------------------------
(***************************************************************************)
(* A SenderDB on disk: SenderDB::save and Load, BinBundle::save and load,  *)
(* and the programs that use them - the command line sender, which loads a *)
(* database or makes one from a CSV file, saves it and serves it, and a    *)
(* program that links the library, which may change what it has loaded.    *)
(* A process may die at any moment; only the files survive.                *)
(*                                                                         *)
(* A file is the sequence of parts written to it: the header, the bundles, *)
(* the OPRF key.  Each part is a size-prefixed buffer; the last one may be *)
(* cut.  FlatBuffers are written back to front, so what a bundle creates   *)
(* first (the felts of its first bin) is what a cut takes first.           *)
(***************************************************************************)
EXTENDS BundleSet

CONSTANTS Paths, NoPath,   \* the files, and "no file given"
          CsvRows,         \* the rows of the CSV file: a set of choices
          Batches,         \* what a program inserts
          MaxStarts,       \* bound: processes started
          MaxOps           \* bound: changes made by processes

ASSUME SavedDBAssumption ==
    /\ NoPath \notin Paths
    /\ CsvRows \cup Batches \subseteq Seq(Datum)
    /\ Labeled => \A data \in CsvRows \cup Batches : \A j \in DOMAIN data : data[j].label \in Labels
    /\ Absent \notin Labels \cup {NoLabel}

VARIABLES
    files,       \* path -> what the file holds
    phase,       \* where the process is
    cmd,         \* its command line
    db,          \* its SenderDB, or NoDB
    oprf_key,    \* the key it keeps beside the SenderDB
    todo,        \* the parts it still has to write
    keys_made,   \* number of random keys made; keys are numbers
    starts, ops  \* counters for the bounds

vars == <<files, phase, cmd, db, oprf_key, todo, keys_made, starts, ops>>

NoDB == [none |-> TRUE]
ZeroKey == 0            \* OPRFKey::clear

\* History, not members: data_key (the key the items were hashed with), content
\* (the map the calls have built), garbled (a stream has hidden that felts were
\* missing) and doubt (the items of which no call has promised anything).
SenderDBRecord(key) ==
    [hashed_items |-> {}, item_count |-> 0, bundles |-> EmptyDB, stripped |-> FALSE,
     oprf_key |-> key, data_key |-> key, content |-> [i \in Items |-> Absent],
     garbled |-> FALSE, doubt |-> {}]
-----------------------------------------------------------------------------
(***************************************************************************)
(* BinBundle::save and load                                                *)
(***************************************************************************)
MatchingCoeffs(bin) == Len(bin) + 1                       \* polyn_with_roots
InterpCoeffs(bin)   == IF bin = <<>> THEN 1 ELSE Len(bin) \* newton_interpolate_polyn
Largest(counts)     == Max({counts[k] : k \in BinIdx})

NoCache == [none |-> TRUE]

\* The polynomials of the cache by their number of coefficients; strip() has
\* dropped those of the single bins.
SavedCache(b) ==
    LET m == [k \in BinIdx |-> MatchingCoeffs(b.cache[k])]
        n == [k \in BinIdx |-> InterpCoeffs(b.cache[k])]
    IN  [content |-> b.cache,
         felt_matching |-> IF b.stripped THEN <<>> ELSE m, batched_matching |-> Largest(m),
         felt_interp |-> IF b.stripped \/ ~Labeled THEN <<>> ELSE n,
         batched_interp |-> IF Labeled THEN Largest(n) ELSE 0]

SaveBundle(b, idx) ==
    [part |-> "bundle", bundle_idx |-> idx, item_bins |-> b.bins, stripped |-> b.stripped,
     cache |-> IF b.cache_invalid THEN NoCache ELSE SavedCache(b)]

\* Bug variant: as many coefficients as the limit are too many.
Bug_CacheAcceptable(c, isStripped) == c.batched_matching < MaxBinSize

\* The checks on a loaded cache, in terms of coefficient counts.
CacheAcceptable(c, isStripped) ==
    /\ c.batched_matching <= MaxBinSize
    /\ isStripped => c.batched_interp <= MaxBinSize
    /\ ~isStripped =>
         /\ c.batched_matching = Largest(c.felt_matching)
         /\ Labeled =>
              LET fewer(n) == IF n <= 1 THEN n ELSE n - 1
              IN  /\ \A k \in BinIdx : c.felt_interp[k] = fewer(c.felt_matching[k])
                  /\ c.batched_interp = fewer(c.batched_matching)

BundleAcceptable(p) ==
    /\ p.stripped => p.cache # NoCache
    /\ ~p.stripped => DOMAIN p.item_bins = BinIdx /\ \A k \in BinIdx : Len(p.item_bins[k]) <= MaxBinSize
    /\ p.cache # NoCache => CacheAcceptable(p.cache, p.stripped)

\* Bug variant: the cache counts as valid even if the buffer held none.
Bug_LoadBundleValid(p) ==
    [bins |-> IF p.stripped THEN <<>> ELSE p.item_bins, stripped |-> p.stripped,
     cache_invalid |-> FALSE,
     cache |-> IF p.cache = NoCache THEN EmptyBins ELSE p.cache.content]

\* The bundle that load() fills; without a saved cache it stays invalid.
LoadBundle(p) ==
    [bins |-> IF p.stripped THEN <<>> ELSE p.item_bins, stripped |-> p.stripped,
     cache_invalid |-> p.cache = NoCache,
     cache |-> IF p.cache = NoCache THEN EmptyBins ELSE p.cache.content]
-----------------------------------------------------------------------------
(***************************************************************************)
(* SenderDB::save and Load                                                 *)
(***************************************************************************)
NoFile == [kind |-> "none"]
CsvFile(rows) == [kind |-> "csv", rows |-> rows]
\* cut: how the last part ends - "no", "early" (the buffer cannot be verified)
\* or "late" (only the last felt of the first bin of a bundle is missing)
SdbFile(parts, cut) == [kind |-> "sdb", parts |-> parts, cut |-> cut]

Header(d) ==
    [part |-> "header", item_count |-> d.item_count, stripped |-> d.stripped,
     oprf_key |-> d.oprf_key, hashed_items |-> d.hashed_items,
     bin_bundle_count |-> BundlesIn(d.bundles),
     data_key |-> d.data_key, content |-> d.content, garbled |-> d.garbled, doubt |-> d.doubt]

\* What save() writes, in order: the bundles by bundle index.
SavedParts(d) ==
    LET upTo[n \in 0 .. BundleIdxCount] ==
            IF n = 0 THEN <<Header(d)>>
            ELSE upTo[n - 1] \o [j \in DOMAIN d.bundles[n - 1] |->
                                    SaveBundle(d.bundles[n - 1][j], n - 1)]
    IN  upTo[BundleIdxCount]

KeyPart(key) == [part |-> "key", oprf_key |-> key]

\* Zero bytes in place of the missing ones: read_from_stream does not look at
\* the state of the stream.
ZeroFilled(p) ==
    IF p.part # "bundle" \/ p.stripped THEN p
    ELSE [p EXCEPT !.item_bins[0] = [m \in DOMAIN @ |-> IF m = Len(@) THEN [@[m] EXCEPT !.felt = Garbled]
                                                        ELSE @[m]]]

\* Bound: no cut is hidden in a part that an earlier one has damaged.  Two zeros
\* in a bin make the next interpolation of its labels throw.
MayHide(p) ==
    p.part = "bundle" /\ ~p.stripped => \A m \in DOMAIN p.item_bins[0] : p.item_bins[0][m].felt # Garbled

\* Part n of a file as read_from_stream delivers it.  A strict stream (one
\* with exceptions enabled) throws when bytes are missing.
Readable(f, n, strict) ==
    /\ n \in DOMAIN f.parts
    /\ n = Len(f.parts) => f.cut = "no" \/ (~strict /\ f.cut = "late" /\ f.parts[n].part = "bundle")
ReadPart(f, n) ==
    IF n = Len(f.parts) /\ f.cut = "late" THEN ZeroFilled(f.parts[n]) ELSE f.parts[n]

\* Bug variant: reading goes on to the end of the file, however early.
Bug_BundlePartsToEnd(f) == {n \in DOMAIN f.parts : f.parts[n].part = "bundle"}

\* The parts that hold the bundles announced in the header.
BundleParts(f) == 2 .. f.parts[1].bin_bundle_count + 1

LoadAccepts(f, strict) ==
    /\ f.kind = "sdb" /\ Readable(f, 1, strict)
    /\ ~f.parts[1].stripped => f.parts[1].item_count = Cardinality(f.parts[1].hashed_items)
    /\ \A n \in BundleParts(f) : Readable(f, n, strict) /\ BundleAcceptable(ReadPart(f, n))

\* Tasks of the pool append the bundles of an index in the order in which
\* they finish.  Then the missing caches are made.
LoadedBundles(f) ==
    LET partsAt(idx) == {n \in BundleParts(f) : f.parts[n].bundle_idx = idx}
        orders == {o \in [BundleIdx -> UNION {SetToSeqs(partsAt(idx)) : idx \in BundleIdx}] :
                     \A idx \in BundleIdx : o[idx] \in SetToSeqs(partsAt(idx))}
    IN  {GenerateCaches([idx \in BundleIdx |->
            [j \in DOMAIN o[idx] |-> LoadBundle(ReadPart(f, o[idx][j]))]]) : o \in orders}

\* The bundles that were not read as they were written.
Hidden(f) == {n \in BundleParts(f) : ReadPart(f, n) # f.parts[n]}

Loaded(f, bundles) ==
    LET h == f.parts[1]
    IN  [hashed_items |-> IF h.stripped THEN {} ELSE h.hashed_items,
         item_count |-> h.item_count, bundles |-> bundles, stripped |-> h.stripped,
         oprf_key |-> h.oprf_key, data_key |-> h.data_key, content |-> h.content,
         garbled |-> h.garbled \/ Hidden(f) # {},
         doubt |-> IF \E n \in Hidden(f) : f.parts[n].cache = NoCache THEN Items ELSE h.doubt]
-----------------------------------------------------------------------------
(***************************************************************************)
(* Changes                                                                 *)
(***************************************************************************)
\* A task works through its items up to one that throws.
RunTask(set, op, task) ==
    LET after[n \in 0 .. Len(task)] ==
            IF n = 0 THEN Result(set, FALSE)
            ELSE IF after[n - 1].threw THEN after[n - 1]
            ELSE WorkItem(after[n - 1].set, op, task[n])
    IN  after[Len(task)]

RunTasks(bundles, op, data) ==
    [idx \in BundleIdx |-> RunTask(bundles[idx], op, TaskOf(data, idx))]

\* What is worked on from bins that are not what was inserted ends anyhow.
DoubtAfter(d, more) == IF d.garbled THEN Items ELSE d.doubt \cup more

\* Of an item that comes twice the first is kept.
FirstsOf(data) ==
    ElementsAt(data, {j \in DOMAIN data : \A m \in 1 .. j - 1 : data[m].item # data[j].item})

\* insert_or_assign of new items
WithItems(d, data) ==
    LET new == FirstsOf(data)
        runs == RunTasks(d.bundles, "insert", new)
    IN  [d EXCEPT !.hashed_items = @ \cup {new[j].item : j \in DOMAIN new},
                  !.item_count = @ + Len(new),
                  !.bundles = GenerateCaches([idx \in BundleIdx |-> runs[idx].set]),
                  !.content = [i \in Items |-> IF \E j \in DOMAIN new : new[j].item = i
                                               THEN new[CHOOSE j \in DOMAIN new : new[j].item = i].label
                                               ELSE @[i]],
                  !.doubt = DoubtAfter(d, {})]

\* strip(): the caches stay, the key goes to the caller
Stripped(d) ==
    [d EXCEPT !.stripped = TRUE, !.hashed_items = {}, !.oprf_key = ZeroKey,
              !.bundles = [idx \in BundleIdx |-> [j \in DOMAIN @[idx] |-> StripBundle(@[idx][j])]]]

\* A batch that names an item twice is an overwrite of an item that is not
\* there yet, and throws (for a labeled database).
RowsThrow(rows) == Labeled /\ \E j, m \in DOMAIN rows : j # m /\ rows[j].item = rows[m].item
-----------------------------------------------------------------------------
Init ==
    /\ \E rows \in CsvRows, p \in Paths :
          files = [q \in Paths |-> IF q = p THEN CsvFile(rows) ELSE NoFile]
    /\ phase = "down" /\ cmd = [mode |-> "none"] /\ db = NoDB /\ oprf_key = ZeroKey /\ todo = <<>>
    /\ keys_made = 0 /\ starts = 0 /\ ops = 0

Stay == UNCHANGED <<files, cmd, keys_made, starts, ops>>

\* The process ends; its memory is gone.
Down == phase' = "down" /\ db' = NoDB /\ oprf_key' = ZeroKey /\ todo' = <<>>

\* start_sender: a random OPRFKey is made before anything is read.
StartSender ==
    /\ phase = "down" /\ starts < MaxStarts
    /\ \E p \in Paths, out \in Paths \cup {NoPath}, params \in BOOLEAN :
          /\ files[p] # NoFile
          /\ cmd' = [mode |-> "sender", db_file |-> p, out_file |-> out, params |-> params, strict |-> TRUE]
    /\ phase' = "load" /\ starts' = starts + 1
    /\ keys_made' = keys_made + 1 /\ oprf_key' = keys_made'
    /\ UNCHANGED <<files, db, todo, ops>>

\* A program that links the library: it creates a database with a new key or
\* loads one, with or without exceptions enabled on the stream.
StartProgram ==
    /\ phase = "down" /\ starts < MaxStarts
    /\ \E p \in Paths \cup {NoPath}, out \in Paths, strict \in BOOLEAN :
          /\ p # NoPath => files[p].kind = "sdb"
          /\ cmd' = [mode |-> "program", db_file |-> p, out_file |-> out, params |-> FALSE, strict |-> strict]
          /\ IF p = NoPath
             THEN phase' = "ready" /\ db' = SenderDBRecord(keys_made + 1)
             ELSE phase' = "load" /\ UNCHANGED db
    /\ keys_made' = keys_made + 1 /\ starts' = starts + 1
    /\ UNCHANGED <<files, oprf_key, todo, ops>>

File == files[cmd.db_file]

LoadFails ==
    /\ phase = "load" /\ ~LoadAccepts(File, cmd.strict)
    /\ IF cmd.mode = "sender" THEN phase' = "csv" /\ UNCHANGED <<db, oprf_key, todo>> ELSE Down
    /\ Stay

KeyReadable == Readable(File, File.parts[1].bin_bundle_count + 2, TRUE)

\* try_load_sender_db: the result is set before the key is read, so that a
\* missing key leaves the sender with the random one.
LoadSucceeds ==
    /\ phase = "load" /\ LoadAccepts(File, cmd.strict)
    /\ \E bundles \in LoadedBundles(File) : db' = Loaded(File, bundles)
    /\ IF cmd.mode = "sender"
       THEN /\ phase' = "made"
            /\ oprf_key' = IF KeyReadable THEN File.parts[File.parts[1].bin_bundle_count + 2].oprf_key
                           ELSE oprf_key
       ELSE phase' = "ready" /\ UNCHANGED oprf_key
    /\ UNCHANGED todo /\ Stay

\* The rows a CSVReader finds.  It takes any line as an item: a database file
\* gives rows too, none of them an item anybody asks for.
RowsOf(f) == IF f.kind = "csv" THEN f.rows ELSE <<>>

\* create_sender_db: set_data, then strip, which hands out the key.
CreateSenderDB(rows) == Stripped(WithItems(SenderDBRecord(keys_made + 1), rows))

LoadCsv ==
    /\ phase = "csv"
    /\ IF ~cmd.params \/ RowsThrow(RowsOf(File))
       THEN Down
       ELSE /\ db' = CreateSenderDB(RowsOf(File)) /\ oprf_key' = keys_made + 1
            /\ phase' = "made" /\ UNCHANGED todo
    /\ keys_made' = keys_made + 1
    /\ UNCHANGED <<files, cmd, starts, ops>>

\* Opening the stream empties the file; the key comes last.
SaveBegin ==
    /\ \/ phase = "made" /\ cmd.out_file # NoPath
       \/ phase = "ready"
    /\ files' = [files EXCEPT ![cmd.out_file] = SdbFile(<<>>, "no")]
    /\ todo' = SavedParts(db) \o (IF cmd.mode = "sender" THEN <<KeyPart(oprf_key)>> ELSE <<>>)
    /\ phase' = "save"
    /\ UNCHANGED <<cmd, db, oprf_key, keys_made, starts, ops>>

SavePart ==
    /\ phase = "save" /\ todo # <<>>
    /\ files' = [files EXCEPT ![cmd.out_file].parts = Append(@, Head(todo))]
    /\ todo' = Tail(todo)
    /\ UNCHANGED <<phase, cmd, db, oprf_key, keys_made, starts, ops>>

\* The dispatcher.  If the database is not stripped its constructor reads the
\* key through a pointer it has moved from, and the process dies.
Serve ==
    /\ \/ phase = "made" /\ cmd.out_file = NoPath
       \/ phase = "save" /\ todo = <<>> /\ cmd.mode = "sender"
    /\ IF db.stripped THEN phase' = "serve" /\ UNCHANGED <<db, oprf_key, todo>> ELSE Down
    /\ Stay

ProgramEnds == phase = "save" /\ todo = <<>> /\ cmd.mode = "program" /\ Down /\ Stay

\* The process dies, perhaps in the middle of writing a part.
Crash ==
    /\ phase # "down" /\ Down
    /\ \/ UNCHANGED files
       \/ /\ phase = "save" /\ todo # <<>>
          /\ \E cut \in {"early"} \cup (IF MayHide(Head(todo)) THEN {"late"} ELSE {}) :
               files' = [files EXCEPT ![cmd.out_file] = SdbFile(Append(@.parts, Head(todo)), cut)]
    /\ UNCHANGED <<cmd, keys_made, starts, ops>>

Change == phase = "ready" /\ ~db.stripped /\ ops < MaxOps /\ ops' = ops + 1
Quietly == UNCHANGED <<files, phase, cmd, oprf_key, todo, keys_made, starts>>

\* insert_or_assign of items that are not there yet
InsertNew(data) ==
    /\ Change /\ ~RowsThrow(data) /\ \A j \in DOMAIN data : data[j].item \notin db.hashed_items
    /\ db' = WithItems(db, data)
    /\ Quietly

\* remove() of one item of the database; `items' is what remove_if leaves to the
\* tasks.  If one throws no cache is made, and a task at a later bundle index
\* may do nothing: its index is in a vector that is gone by then.
Removal(i, items) ==
    LET data == [j \in DOMAIN items |-> [item |-> items[j], label |-> NoLabel]]
        runs == RunTasks(db.bundles, "remove", data)
        threw == {idx \in BundleIdx : runs[idx].threw}
        late == {idx \in BundleIdx : TaskOf(data, idx) # <<>> /\ \E k \in threw : k < idx}
    IN  /\ Change /\ i \in db.hashed_items
        /\ \E lost \in SUBSET late :
              LET left == [idx \in BundleIdx |-> IF idx \in lost THEN db.bundles[idx] ELSE runs[idx].set]
              IN  db' = [db EXCEPT !.hashed_items = @ \ {i}, !.item_count = @ - 1,
                                   !.bundles = IF threw = {} THEN GenerateCaches(left) ELSE left,
                                   !.content = [@ EXCEPT ![i] = Absent],
                                   !.doubt = DoubtAfter(db, IF lost = {} THEN {} ELSE {i})]
        /\ Quietly

RemoveOne(i) == Removal(i, <<i>>)

\* With an item that is not there: the tasks find i and then j, or i twice.
RemoveTwo(i, j) == Removal(i, <<i, j>>) /\ (j = i \/ j \notin db.hashed_items)

Strip ==
    /\ Change
    /\ db' = Stripped(db) /\ oprf_key' = db.oprf_key
    /\ UNCHANGED <<files, phase, cmd, todo, keys_made, starts>>

Next ==
    \/ StartSender \/ StartProgram \/ LoadFails \/ LoadSucceeds \/ LoadCsv
    \/ SaveBegin \/ SavePart \/ Serve \/ ProgramEnds \/ Crash \/ Strip
    \/ \E data \in Batches : InsertNew(data)
    \/ \E i \in Items : RemoveOne(i)
    \/ \E i, j \in Items : RemoveTwo(i, j)
    \/ (phase = "down" /\ starts = MaxStarts /\ UNCHANGED vars)

Spec == Init /\ [][Next]_vars
-----------------------------------------------------------------------------
Bundles(d) == UNION {ToSet(d.bundles[idx]) : idx \in BundleIdx}
Stale(d) == \E b \in Bundles(d) : b.cache_invalid

\* Whatever was loaded, by however many processes, in whatever order the bundles
\* came, and changed since: the caches answer with the content that the calls
\* have built (SenderDB::Load, sender_db.cpp:1240).  A cut that a lenient stream
\* hides spares the caches in the file, so that with them the answers are right
\* until the bins are used.
AnswersSurvive ==
    db # NoDB /\ ~Stale(db) =>
        \A i \in Items \ db.doubt : AnswerFor(db.bundles, i) = db.content[i]

\* What a query does not see is restored too: the item count, the hashed items,
\* and bins that agree with the caches, so that later changes find the items.
\* No cache is stale when it is served.
MembersSurvive ==
    db # NoDB =>
        /\ db.item_count = Cardinality({i \in Items : db.content[i] # Absent})
        /\ ~db.stripped => db.hashed_items = {i \in Items : db.content[i] # Absent}
        /\ \A b \in Bundles(db) :
              ~db.garbled /\ ~b.stripped /\ ~b.cache_invalid => b.cache = b.bins
        /\ phase \in {"made", "serve"} => ~Stale(db)

Complete(f) == f.kind = "sdb" /\ f.cut = "no" /\ f.parts # <<>>
               /\ Len(f.parts) > f.parts[1].bin_bundle_count

WithoutLast(f) == [f EXCEPT !.parts = SubSeq(@, 1, Len(@) - 1), !.cut = "no"]

\* A save that ended loads again, whatever calls (failed ones too) came before
\* it; one that was interrupted before its last bundle was written does not
\* load from a stream that reports errors.
LoadsIffComplete ==
    \A p \in Paths : files[p].kind = "sdb" =>
        (LoadAccepts(files[p], TRUE) <=>
            Complete(files[p]) \/ Complete(WithoutLast(files[p])))

\* cli/sender/sender.cpp:85-88: "Failed to load SenderDB": a sender serves its
\* database under the key the items were hashed with, or does not serve it.
ServesUnderItsKey == phase = "serve" => oprf_key = db.data_key
=============================================================================
