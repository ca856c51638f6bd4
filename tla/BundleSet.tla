----------------------------- MODULE BundleSet -----------------------------
(***************************************************************************)
(* The bundles at all bundle indices of a SenderDB (bin_bundles_) and what *)
(* the free functions of sender/apsi/sender_db.cpp do with them: turning   *)
(* items into bin contents, inserting and removing one item at a bundle    *)
(* index, and reading the caches as a query does.  SenderDB applies these  *)
(* operators under its lock and on the thread pool, SavedDB between a load *)
(* and a save.                                                             *)
(***************************************************************************)
EXTENDS BinBundle, Integers, FiniteSets

CONSTANTS Items, Labels,   \* the items and labels callers pass
          NoLabel,         \* the label of an item of an unlabeled database
          Absent, Garbled, \* what a query may find instead of a label (Garbled: or of a felt)
          BundleIdxCount,
          FeltsPerItem,
          ItemFelts,       \* item -> its field elements (algebraize_item)
          ItemLocs         \* item -> its distinct locations (all_locations)

ASSUME BundleSetAssumption ==
    /\ BundleIdxCount \in Nat \ {0}
    /\ FeltsPerItem \in Nat \ {0}
    /\ \A i \in Items : ItemFelts[i] \in [1 .. FeltsPerItem -> ToSet(ItemFelts[i])]
    /\ \A i \in Items : Garbled \notin ToSet(ItemFelts[i]) /\ ItemLocs[i] \in Seq(Nat)

BundleIdx == 0 .. BundleIdxCount - 1

\* An item with its label, as callers pass them.
Datum == [item : Items, label : Labels \cup {NoLabel}]

EmptyDB == [idx \in BundleIdx |-> <<>>]

\* The number of bundles at all indices.
BundlesIn(bb) ==
    LET below[n \in 0 .. BundleIdxCount] ==
            IF n = 0 THEN 0 ELSE below[n - 1] + Len(bb[n - 1])
    IN  below[BundleIdxCount]

\* The m-th smallest of a set of positions, and the elements of a sequence at
\* a set of positions, in order.
Nth(K, m) == CHOOSE k \in K : Cardinality({j \in K : j <= k}) = m
ElementsAt(s, K) == [m \in 1 .. Cardinality(K) |-> s[Nth(K, m)]]
-----------------------------------------------------------------------------
\* unpack_cuckoo_idx, applied to the first bin of a location
BinOf(loc)    == (loc * FeltsPerItem) % NumBins
BundleOf(loc) == (loc * FeltsPerItem - BinOf(loc)) \div NumBins

\* The locations are rows of the table, which the bundle indices cover
\* (bundle_idx_count_, psi_params.cpp).
ASSUME LocationsAssumption ==
    \A i \in Items : \A loc \in ToSet(ItemLocs[i]) : BundleOf(loc) \in BundleIdx

\* A bundle holds whole rows (bins_per_bundle_, psi_params.cpp); an item has at
\* least one location, and all_locations() gives each of them once.
ASSUME RowsAssumption ==
    /\ NumBins % FeltsPerItem = 0
    /\ \A i \in Items : ItemLocs[i] # <<>> /\ IsInjective(ItemLocs[i])

\* No item can be put together from felts of others: at each of its locations
\* it has a felt that no other item with that location has at the same place.
ItemsApart ==
    \A i \in Items : \A loc \in ToSet(ItemLocs[i]) : \E j \in 1 .. FeltsPerItem :
        \A o \in Items \ {i} : loc \in ToSet(ItemLocs[o]) => ItemFelts[o][j] # ItemFelts[i][j]

\* Bug variant: the item itself is stored in every bin.
Bug_AlgebraizeWhole(d) == [j \in 1..FeltsPerItem |->
                            [felt |-> d.item, label |-> IF Labeled THEN <<d.item, d.label>> ELSE NoLabel]]

Algebraize(d) == [j \in 1..FeltsPerItem |->
                    [felt |-> ItemFelts[d.item][j],
                     label |-> IF Labeled THEN <<d.item, d.label>> ELSE NoLabel]]

\* preprocess_labeled_data, preprocess_unlabeled_data: one entry per item
\* and location, in order
EntriesOf(d) == [m \in DOMAIN ItemLocs[d.item] |->
                   [data |-> Algebraize(d), loc |-> ItemLocs[d.item][m]]]
Preprocess(data) == FlattenSeq([j \in DOMAIN data |-> EntriesOf(data[j])])

\* The entries at one bundle index, in the same order.
LocsAt(i, idx) == {m \in DOMAIN ItemLocs[i] : BundleOf(ItemLocs[i][m]) = idx}
TaskOf(data, idx) ==
    FlattenSeq([j \in DOMAIN data |-> ElementsAt(EntriesOf(data[j]), LocsAt(data[j].item, idx))])

-----------------------------------------------------------------------------
(***************************************************************************)
(* One item of a worker task.  Each returns the new set of bundles at the  *)
(* bundle index and whether the worker threw.                              *)
(***************************************************************************)
Result(set, threw) == [set |-> set, threw |-> threw]

\* Bug variant: an insertion may fill a bin to the limit.
Bug_InsertItemToLimit(set, w, overwrite) ==
    LET bin == BinOf(w.loc)
        stops == {j \in DOMAIN set : MultiInsertDryRun(set[j], w.data, bin) \in 1 .. MaxBinSize}
    IN  IF stops = {} THEN Result(Append(set, MultiInsertForReal(NewBundle, w.data, bin)), FALSE)
        ELSE Result([set EXCEPT ![Max(stops)] =
                       MultiInsertForReal(set[Max(stops)], w.data, bin)], FALSE)

\* insert_or_assign_worker scans the bundles from the last to the first and
\* stops at the first one it can overwrite in or insert into.
InsertItem(set, w, overwrite) ==
    LET bin == BinOf(w.loc)
        overwritable(j) == overwrite /\ Holds(set[j].bins, w.data, bin)
        insertable(j) == MultiInsertDryRun(set[j], w.data, bin) \in 1 .. MaxBinSize - 1
        stops == {j \in DOMAIN set : set[j].stripped \/ overwritable(j) \/ insertable(j)}
    IN  IF stops = {}
        THEN IF overwrite THEN Result(set, TRUE)
             ELSE Result(Append(set, MultiInsertForReal(NewBundle, w.data, bin)), FALSE)
        ELSE LET j == Max(stops)
             IN  IF set[j].stripped THEN Result(set, TRUE)
                 ELSE IF overwritable(j)
                 THEN Result([set EXCEPT ![j] = MultiOverwrite(set[j], w.data, bin)], FALSE)
                 ELSE Result([set EXCEPT ![j] = MultiInsertForReal(set[j], w.data, bin)], FALSE)

\* The bundles that are not empty, in order.
NonEmptyBundles(set) ==
    LET kept[j \in 0 .. Len(set)] ==
            IF j = 0 THEN <<>>
            ELSE IF Empty(set[j]) THEN kept[j - 1] ELSE Append(kept[j - 1], set[j])
    IN  kept[Len(set)]

\* remove_worker scans forward, removes from the first bundle that holds the
\* felts, and drops the bundles that are empty, found or not.
RemoveItem(set, w) ==
    LET bin == BinOf(w.loc)
        stops == {j \in DOMAIN set : set[j].stripped \/ Holds(set[j].bins, w.data, bin)}
    IN  IF stops = {} THEN Result(NonEmptyBundles(set), TRUE)
        ELSE LET j == Min(stops)
             IN  IF set[j].stripped THEN Result(set, TRUE)
                 ELSE Result(NonEmptyBundles([set EXCEPT ![j] = MultiRemove(set[j], w.data, bin)]), FALSE)

WorkItem(set, op, w) ==
    IF op = "remove" THEN RemoveItem(set, w) ELSE InsertItem(set, w, op = "overwrite")

(***************************************************************************)
(* What queries read.  The receiver asks for an item at one of its         *)
(* locations; every bundle there answers from its cache.                   *)
(***************************************************************************)
Probe(i) == Algebraize([item |-> i, label |-> NoLabel])

MatchesAt(bb, i, loc) ==
    {j \in DOMAIN bb[BundleOf(loc)] :
        Holds(bb[BundleOf(loc)][j].cache, Probe(i), BinOf(loc))}

LabelPartsAt(bb, i, loc) ==
    UNION {ToSet(MultiGetLabel(bb[BundleOf(loc)][j].cache, Probe(i), BinOf(loc))) :
             j \in MatchesAt(bb, i, loc)}

\* The answer for an item: the label every location yields, from one bundle
\* each; Absent when no location matches; Garbled otherwise.
AnswerFor(bb, i) ==
    LET locs == ToSet(ItemLocs[i])
    IN  IF \A loc \in locs : MatchesAt(bb, i, loc) = {} THEN Absent
        ELSE IF \E loc \in locs : Cardinality(MatchesAt(bb, i, loc)) # 1 THEN Garbled
        ELSE IF ~Labeled THEN NoLabel
        ELSE LET parts == UNION {LabelPartsAt(bb, i, loc) : loc \in locs}
                 clean == {l \in Labels : parts = {<<i, l>>}}
             IN  IF clean = {} THEN Garbled ELSE CHOOSE l \in clean : TRUE

Answers(bb) == [i \in Items |-> AnswerFor(bb, i)]

\* Bug variant: the caches are left for the first query to regenerate.
Bug_NoCaches(bb) == bb

GenerateCaches(bb) == [idx \in BundleIdx |-> [j \in DOMAIN bb[idx] |-> RegenCache(bb[idx][j])]]
=============================================================================
