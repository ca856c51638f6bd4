------------------------------ MODULE Matching ------------------------------
(***************************************************************************)
(* One query from end to end: parameters, database, OPRF, query,           *)
(* evaluation and result, with the values each step computes.  The modules *)
(* SenderDB, QueryProtocol and PowersDag leave these values out and look   *)
(* at the interleavings; here the two sides take turns and the values are  *)
(* what is checked.                                                        *)
(*                                                                         *)
(* A point of the curve is its discrete logarithm, a number below the      *)
(* prime order of the subgroup that HashToCurve maps to; a hashed item is  *)
(* named by the point it is extracted from, and so is its label key.       *)
(***************************************************************************)
EXTENDS PSIParams, Encoding, Polynomials

CONSTANTS
    Documents,           \* the JSON documents the sender may be started with
    Order, Cofactor,     \* of the subgroup, and what clear_cofactor multiplies by
    PointOf,             \* item -> HashToCurve of its Blake2b hash (external)
    HashOf,              \* point -> the bytes of the hashed item (external)
    LocsOf,              \* point -> its distinct table locations (Kuku, external)
    OPRFKeys, Blinds,    \* bound: the scalars drawn by sender and receiver
    DataSets,            \* bound: what set_data is called with
    Queries,             \* bound: what the receiver asks for
    NonceDraws,          \* bound: the nonces drawn for the labels, row by row
    LabelByteCount, NonceByteCount,
    BundleIdxCount, FeltsPerItem, NumBins, MaxItemsPerBin

ASSUME MatchingAssumption ==
    /\ OPRFKeys \subseteq 1 .. Order - 1 /\ Blinds \subseteq 1 .. Order - 1
    /\ Cofactor % Order # 0
    /\ \A nonces \in NonceDraws : \A r \in DOMAIN nonces : Len(nonces[r]) = NonceByteCount
    /\ NonceByteCount <= MaxNonceByteCount
    /\ NumBins <= Cardinality(Slots)

VARIABLES
    phase,
    params,              \* the sender's parameters
    receiver_params,     \* the receiver's
    oprf_key, data,      \* the sender's key and what it has inserted
    bin_bundles,         \* bundle index -> bundles
    items,               \* the receiver's items
    inv_factors,         \* their unblinding factors
    points,              \* the points on their way: blinded, answered, unblinded
    table,               \* table location -> hashed item, 0 when empty
    packages,            \* result packages, and those still to be processed
    pending,
    have_keys,           \* does the caller hand over the label keys?
    mrs                  \* the match records

dbVars   == <<oprf_key, data, bin_bundles>>
oprfVars == <<items, inv_factors, points>>
resVars  == <<packages, pending, have_keys, mrs>>
vars == <<phase, params, receiver_params, dbVars, oprfVars, table, resVars>>

B == INSTANCE BundleSet WITH
        MaxBinSize <- MaxItemsPerBin, Labeled <- TRUE, Items <- {}, Labels <- {},
        NoLabel <- 0, Absent <- 0, Garbled <- 0, ItemFelts <- <<>>, ItemLocs <- <<>>

Locations == 0 .. BundleIdxCount * (NumBins \div FeltsPerItem) - 1
EmptyTable == [loc \in Locations |-> 0]

Init ==
    /\ phase = "start"
    /\ params = Rejected /\ receiver_params = Rejected
    /\ oprf_key = 0 /\ data = <<>> /\ bin_bundles = B!EmptyDB
    /\ items = <<>> /\ inv_factors = <<>> /\ points = <<>>
    /\ table = EmptyTable
    /\ packages = <<>> /\ pending = {} /\ have_keys = TRUE /\ mrs = <<>>
-----------------------------------------------------------------------------
SenderLoads(doc) ==
    /\ phase = "start"
    /\ params' = LoadJSON(doc)
    /\ phase' = IF params' = Rejected THEN "rejected" ELSE "params"
    /\ UNCHANGED <<receiver_params, dbVars, oprfVars, table, resVars>>

\* The receiver constructs itself from the parameters it is sent.
ReceiverLoads ==
    /\ phase = "params"
    /\ receiver_params' = Load(Save(params))
    /\ phase' = IF receiver_params' # Rejected /\ DagConfigured(receiver_params')
                THEN "receiver" ELSE "broken"
    /\ UNCHANGED <<params, dbVars, oprfVars, table, resVars>>
-----------------------------------------------------------------------------
\* ECPoint: MakeRandomNonzeroScalar draws from 1 .. Order - 1.
InvertScalar(s) == CHOOSE t \in 1 .. Order - 1 : (s * t) % Order = 1

ScalarMultiply(point, scalar, clear_cofactor) ==
    (point * scalar * (IF clear_cofactor THEN Cofactor ELSE 1)) % Order

\* OPRFSender::GetItemHash, as the point that is hashed
ItemHash(item, key) == ScalarMultiply(PointOf[item], key, TRUE)

\* ComputeHashes and preprocess_labeled_data: the hashed items with their
\* encrypted labels, one entry for every location.
Entries(rows, key, nonces) ==
    FlattenSeq([r \in DOMAIN rows |->
        LET point == ItemHash(rows[r].item, key)
            label == EncryptLabel(rows[r].label, point, LabelByteCount, nonces[r])
        IN  [m \in DOMAIN LocsOf[point] |->
                [data |-> AlgebraizeItemLabel(HashOf[point], label, ItemBitCount(params)),
                 loc |-> LocsOf[point][m]]]])

\* set_data: the entries of every bundle index, in order.
Inserted(entries) ==
    FoldLeft(LAMBDA bb, w :
            [bb EXCEPT ![B!BundleOf(w.loc)] = B!InsertItem(bb[B!BundleOf(w.loc)], w, FALSE).set],
        B!EmptyDB, entries)

\* Interpolation throws at a felt that is in a bin twice.
PolynsExist(b) ==
    \A k \in DOMAIN b.bins : \A l \in 1 .. LabelSize(NonceByteCount + LabelByteCount,
                                                      ItemBitCount(params)) :
        Interpolable([e \in DOMAIN b.bins[k] |-> b.bins[k][e].felt],
                     [e \in DOMAIN b.bins[k] |-> b.bins[k][e].label[l]])

BuildDB(key, rows, nonces) ==
    /\ phase = "receiver"
    /\ oprf_key' = key /\ data' = rows
    /\ bin_bundles' = Inserted(Entries(rows, key, nonces))
    /\ phase' = IF \A idx \in B!BundleIdx : \A j \in DOMAIN bin_bundles'[idx] :
                      PolynsExist(bin_bundles'[idx][j])
                THEN "ready" ELSE "broken"
    /\ UNCHANGED <<params, receiver_params, oprfVars, table, resVars>>
-----------------------------------------------------------------------------
Blinded(item, blind) == ScalarMultiply(PointOf[item], blind, FALSE)

\* OPRFReceiver::process_items
Blind(query, blinds) ==
    /\ phase = "ready"
    /\ items' = query
    /\ inv_factors' = [i \in DOMAIN query |-> InvertScalar(blinds[i])]
    /\ points' = [i \in DOMAIN query |-> Blinded(query[i], blinds[i])]
    /\ phase' = "blinded"
    /\ UNCHANGED <<params, receiver_params, dbVars, table, resVars>>

\* OPRFSender::ProcessQueries
AnswerOPRF ==
    /\ phase = "blinded"
    /\ points' = [i \in DOMAIN points |-> ScalarMultiply(points[i], oprf_key, TRUE)]
    /\ phase' = "answered"
    /\ UNCHANGED <<params, receiver_params, dbVars, items, inv_factors, table, resVars>>

\* OPRFReceiver::process_responses
Unblind ==
    /\ phase = "answered"
    /\ points' = [i \in DOMAIN points |-> ScalarMultiply(points[i], inv_factors[i], FALSE)]
    /\ phase' = "hashed"
    /\ UNCHANGED <<params, receiver_params, dbVars, items, inv_factors, table, resVars>>
-----------------------------------------------------------------------------
\* The cuckoo table of create_query: every hashed item once, at one of its
\* locations.  Kuku may give up when items compete for a location.
Placements(hashed) ==
    {f \in [hashed -> Locations] :
        /\ \A h \in hashed : \E m \in DOMAIN LocsOf[h] : f[h] = LocsOf[h][m]
        /\ IsInjective(f)}

Competing(hashed) ==
    \E g, h \in hashed : g # h /\ Range(LocsOf[g]) \cap Range(LocsOf[h]) # {}

CreateQuery ==
    /\ phase = "hashed"
    /\ \/ /\ Competing(Range(points))
          /\ phase' = "unplaceable" /\ UNCHANGED table
       \/ \E f \in Placements(Range(points)) :
            /\ table' = [loc \in Locations |->
                            IF loc \in Range(f) THEN Inverse(f, Range(points), Locations)[loc] ELSE 0]
            /\ phase' = "queried"
    /\ UNCHANGED <<params, receiver_params, dbVars, oprfVars, resVars>>

\* IndexTranslationTable::find_item_idx: the last of the items that are the
\* same; 0 (the code's item_count) for a location that was not filled.
FindItemIdx(loc) ==
    IF table[loc] = 0 THEN 0 ELSE Max({i \in DOMAIN points : points[i] = table[loc]})

\* The algebraized items of a bundle index, an empty slot being the item 0,
\* and their encrypted powers (PlaintextPowers).
SlotValues(idx) ==
    [k \in Slots |->
        LET hashed == table[idx * ItemsPerBundle(receiver_params) + k \div FeltsPerItem]
        IN  IF k < NumBins /\ hashed # 0
            THEN AlgebraizeItem(HashOf[hashed], ItemBitCount(receiver_params))[(k % FeltsPerItem) + 1]
            ELSE 0]

EncryptedPowers(idx) ==
    LET values == SlotValues(idx)
    IN  [w \in receiver_params.query_powers |->
            Cipher([k \in Slots |-> Power(values[k], w)], FALSE, FirstChainIdx, TRUE)]
-----------------------------------------------------------------------------
\* regen_polyns: the polynomials of a bundle, bin by bin
MatchingPolyns(b) ==
    [k \in 0 .. NumBins - 1 |-> PolynWithRoots([e \in DOMAIN b.bins[k] |-> b.bins[k][e].felt])]

InterpPolyns(b, l) ==
    [k \in 0 .. NumBins - 1 |->
        NewtonInterpolate([e \in DOMAIN b.bins[k] |-> b.bins[k][e].felt],
                          [e \in DOMAIN b.bins[k] |-> b.bins[k][e].label[l]])]

\* ProcessBinBundleCache: the package of one bundle
Package(idx, b, powers) ==
    LET ps == params.ps_low_degree
        result(polyns) == Evaluated(Batched(polyns, ps), powers, ps)
    IN  [bundle_idx |-> idx,
         label_byte_count |-> LabelByteCount, nonce_byte_count |-> NonceByteCount,
         psi_result |-> result(MatchingPolyns(b)),
         label_result |-> [l \in 1 .. LabelSize(NonceByteCount + LabelByteCount,
                                                ItemBitCount(params)) |->
                              result(InterpPolyns(b, l))]]

PackagesAt(idx) ==
    LET powers == ComputePowers(EncryptedPowers(idx), TargetPowers(params),
                                params.max_items_per_bin, params.ps_low_degree)
    IN  [j \in DOMAIN bin_bundles[idx] |-> Package(idx, bin_bundles[idx][j], powers)]

Whole(pkg) == pkg.psi_result.ok /\ \A l \in DOMAIN pkg.label_result : pkg.label_result[l].ok

AnswerQuery ==
    /\ phase = "queried"
    /\ packages' = FlattenSeq([i \in 1 .. BundleIdxCount |-> PackagesAt(i - 1)])
    /\ pending' = DOMAIN packages'
    /\ phase' = IF \A k \in pending' : Whole(packages'[k]) THEN "result" ELSE "broken"
    /\ mrs' = [i \in DOMAIN items |-> [found |-> FALSE, label |-> <<>>]]
    /\ have_keys' \in BOOLEAN
    /\ UNCHANGED <<params, receiver_params, dbVars, oprfVars, table>>
-----------------------------------------------------------------------------
(***************************************************************************)
(* Receiver::process_result_part and process_result                        *)
(***************************************************************************)
\* The bytes of label that a match yields: none without label keys, and no
\* more than were received.
EffectiveLabelByteCount(pkg) ==
    LET received == (ItemBitCount(receiver_params) * Len(pkg.label_result)) \div W
    IN  IF \/ pkg.label_byte_count = 0 \/ pkg.label_result = <<>> \/ ~have_keys
           \/ received < pkg.nonce_byte_count
        THEN 0 ELSE Min({pkg.label_byte_count, received - pkg.nonce_byte_count})

\* has_n_zeros
Matches(pkg, slot) ==
    \A k \in 0 .. FeltsPerItem - 1 : pkg.psi_result.vals[slot * FeltsPerItem + k] = 0

\* Bug variant: the slots of every package count from the start of the table.
Bug_TableIdx(pkg, slot) == slot

TableIdx(pkg, slot) == slot + pkg.bundle_idx * ItemsPerBundle(receiver_params)

LabelAt(pkg, slot, key) ==
    LET part(l) == [k \in 1 .. FeltsPerItem |->
                       pkg.label_result[l].vals[slot * FeltsPerItem + k - 1]]
        alg_label == FlattenSeq([l \in DOMAIN pkg.label_result |-> part(l)])
        bytes == DealgebraizeLabel(alg_label,
                    ItemBitCount(receiver_params) * Len(pkg.label_result))
        size  == EffectiveLabelByteCount(pkg)
    IN  IF size = 0 THEN <<>>
        ELSE DecryptLabel(SubSeq(bytes, 1, pkg.nonce_byte_count + size), key,
                          pkg.nonce_byte_count)

\* The items found in a package, each with the slot it was found in; a slot
\* that holds no item of the query is ignored.
Hits(pkg) ==
    {h \in (DOMAIN items) \X (0 .. ItemsPerBundle(receiver_params) - 1) :
        Matches(pkg, h[2]) /\ FindItemIdx(TableIdx(pkg, h[2])) = h[1]}

ProcessPart(k) ==
    LET pkg == packages[k]
        hits == Hits(pkg)
        found == {h[1] : h \in hits}
    IN
    /\ phase = "result" /\ k \in pending
    /\ pending' = pending \ {k}
    /\ IF Cardinality(found) # Cardinality(hits) \/ \E i \in found : mrs[i].found
       THEN phase' = "duplicate" /\ UNCHANGED mrs
       ELSE /\ mrs' = [i \in DOMAIN mrs |->
                 IF i \in found
                 THEN [found |-> TRUE,
                       label |-> LabelAt(pkg, CHOOSE s \in {h[2] : h \in hits} : <<i, s>> \in hits,
                                         points[i])]
                 ELSE mrs[i]]
            /\ UNCHANGED phase
    /\ UNCHANGED <<params, receiver_params, dbVars, oprfVars, table, packages, have_keys>>

Finish ==
    /\ phase = "result" /\ pending = {}
    /\ phase' = "done"
    /\ UNCHANGED <<params, receiver_params, dbVars, oprfVars, table, resVars>>

Next ==
    \/ \E doc \in Documents : SenderLoads(doc)
    \/ ReceiverLoads
    \/ \E key \in OPRFKeys, rows \in DataSets, nonces \in NonceDraws :
          BuildDB(key, rows, nonces)
    \/ \E query \in Queries : \E blinds \in [DOMAIN query -> Blinds] : Blind(query, blinds)
    \/ AnswerOPRF \/ Unblind \/ CreateQuery \/ AnswerQuery
    \/ \E k \in pending : ProcessPart(k)
    \/ Finish

Spec == Init /\ [][Next]_vars
-----------------------------------------------------------------------------
\* The bundles that hold all the field elements of a hashed item at loc.
Probe(point) ==
    LET felts == AlgebraizeItem(HashOf[point], ItemBitCount(params))
    IN  [j \in DOMAIN felts |-> [felt |-> felts[j], label |-> 0]]

HoldersAt(point, loc) ==
    LET set == bin_bundles[B!BundleOf(loc)]
    IN  {j \in DOMAIN set : B!Holds(set[j].bins, Probe(point), B!BinOf(loc))}

\* SenderDB::get_label: the label in the first bundle that holds the item at
\* loc, one of its locations, its parts put back in the order of its bits.
GetLabel(item, loc) ==
    LET point == ItemHash(item, oprf_key)
        bundle == bin_bundles[B!BundleOf(loc)][Min(HoldersAt(point, loc))]
        parts == B!MultiGetLabel(bundle.bins, Probe(point), B!BinOf(loc))
        alg_label == [n \in 1 .. FeltsPerItem * Len(parts[1]) |->
            parts[((n - 1) % FeltsPerItem) + 1][((n - 1) \div FeltsPerItem) + 1]]
        bytes == DealgebraizeLabel(alg_label, Len(alg_label) * ItemBitCountPerFelt(params))
    IN  DecryptLabel(SubSeq(bytes, 1, NonceByteCount + LabelByteCount), point, NonceByteCount)

\* Where item i is looked for, and how many bundles hold it there.
LocOf(i)   == CHOOSE l \in Locations : table[l] = points[i]
Holders(i) == Cardinality(HoldersAt(points[i], LocOf(i)))

IsLast(i) == \A j \in DOMAIN items : items[j] = items[i] => j <= i

\* The label a caller gets for the one that was inserted: cut, or filled up
\* with zeros.
AsReturned(label) ==
    [b \in 1 .. LabelByteCount |-> IF b \in DOMAIN label THEN label[b] ELSE 0]

\* A query that ends reports an item exactly if its field elements lie in
\* one bundle at its location, with the label that was inserted for it (of
\* an item asked for twice, the last one), which is what get_label returns
\* on the sender's side; so nothing is lost or altered by blinding, encoding,
\* interpolation, evaluation and decoding.
RecordsAreRight ==
    phase = "done" =>
        \A i \in DOMAIN items :
            /\ mrs[i].found <=> IsLast(i) /\ Holders(i) = 1
            /\ \A r \in DOMAIN data : data[r].item = items[i] =>
                 /\ IsLast(i) => mrs[i].found
                 /\ mrs[i].found =>
                      /\ GetLabel(items[i], LocOf(i)) = AsReturned(data[r].label)
                      /\ mrs[i].label = IF have_keys THEN AsReturned(data[r].label) ELSE <<>>

\* Whatever parameters pass the checks, the receiver starts and the sender
\* evaluates every polynomial, with or without Paterson-Stockmeyer; but not
\* with a low degree of 1, which is accepted and then fails.
QueriesAreAnswered == phase = "broken" => params.ps_low_degree = 1

\* The receiver gives a result up as a duplicate only when an item really
\* lies in two bundles at its location.
OnlyCollisionsAbort == phase = "duplicate" => \E i \in DOMAIN items : Holders(i) > 1
=============================================================================
