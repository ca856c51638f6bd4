--------------------------- MODULE SavedDBProofs ---------------------------
(***************************************************************************)
(* Proofs about SavedDB: every file holds what save() wrote of a good      *)
(* database, as far as it got; so what load() takes is good, whatever      *)
(* processes, calls and crashes came before.                               *)
(***************************************************************************)
EXTENDS SavedDB, BundleSetProofs

\* The entries of bins that may have been filled with zeros.
SavedEntry == [felt : {Garbled} \cup UNION {ToSet(ItemFelts[i]) : i \in Items},
               label : (Items \X (Labels \cup {NoLabel})) \cup {NoLabel}]

Present(content) == {i \in Items : content[i] # Absent}

\* What a database and the header of its file tell of its items.
Counted(d) ==
    /\ DOMAIN d.content = Items /\ d.stripped \in BOOLEAN /\ d.garbled \in BOOLEAN
    /\ IsFiniteSet(Present(d.content)) /\ d.item_count = Cardinality(Present(d.content))
    /\ ~d.stripped => d.hashed_items = Present(d.content)

DbFields == {"hashed_items", "item_count", "bundles", "stripped", "oprf_key", "data_key",
             "content", "garbled", "doubt"}

GoodDb(d) ==
    /\ DOMAIN d = DbFields /\ Counted(d)
    /\ \A idx \in BundleIdx : GoodSet(d.bundles[idx], SavedEntry, TRUE, ~d.garbled)

\* A bundle as save() writes it: load() takes it, and it is a good one.
GoodPart(p, exact) ==
    /\ p = [part |-> "bundle", bundle_idx |-> p.bundle_idx, item_bins |-> p.item_bins,
            stripped |-> p.stripped, cache |-> p.cache]
    /\ MaxBinSize > 1 => BundleAcceptable(p)
    /\ GoodBundle(LoadBundle(p), SavedEntry, TRUE, exact)

GoodHeader(h) == Counted(h) /\ h.bin_bundle_count \in Nat

GoodParts(q) ==
    /\ IsSeq(q)
    /\ q # <<>> =>
         /\ GoodHeader(q[1])
         /\ \A n \in DOMAIN q \cap (2 .. q[1].bin_bundle_count + 1) : GoodPart(q[n], ~q[1].garbled)

\* A save that has written all this is complete.
WholeDb(q) == GoodParts(q) /\ q # <<>> /\ Len(q) > q[1].bin_bundle_count

GoodFile(f) ==
    \/ f = NoFile
    \/ \E rows \in CsvRows : f = CsvFile(rows)
    \/ f = SdbFile(f.parts, f.cut) /\ GoodParts(f.parts)

-----------------------------------------------------------------------------
(***************************************************************************)
(* What load() accepts                                                     *)
(***************************************************************************)
\* The greatest of numbers given bin by bin.
LEMMA LargestIs ==
    ASSUME NEW n \in Nat, NEW counts, \A k \in BinIdx : counts[k] \in 0 .. n
    PROVE  /\ \E k \in BinIdx : Largest(counts) = counts[k]
           /\ \A k \in BinIdx : counts[k] <= Largest(counts)
           /\ Largest(counts) \in 0 .. n
<1> DEFINE S == {counts[k] : k \in BinIdx}
<1>1. S \in SUBSET (0 .. n) /\ 0 \in BinIdx
    BY BinBundleAssumption DEF BinIdx
<1>2. S # {} /\ Largest(counts) = Max(S)
    BY <1>1 DEF Largest
<1>3. \A k \in BinIdx : counts[k] \in S
    OBVIOUS
<1>4. \A x \in S : \E k \in BinIdx : x = counts[k]
    OBVIOUS
<1> HIDE DEF S
<1>5. Max(S) \in S /\ \A x \in S : x <= Max(S)
    BY <1>1, <1>2, GreatestOf, Zenon
<1> QED
    BY <1>1, <1>2, <1>3, <1>4, <1>5

LEMMA CacheIsAcceptable ==
    ASSUME MaxBinSize > 1, NEW E, NEW may, NEW exact, NEW b, GoodBundle(b, E, may, exact)
    PROVE  CacheAcceptable(SavedCache(b), b.stripped)
<1> DEFINE m == [k \in BinIdx |-> MatchingCoeffs(b.cache[k])]
           n == [k \in BinIdx |-> InterpCoeffs(b.cache[k])]
           c == SavedCache(b)
           fewer(x) == IF x <= 1 THEN x ELSE x - 1
<1>0. MaxBinSize \in Nat
    BY BinBundleAssumption
<1>1. ASSUME NEW k \in BinIdx
      PROVE  m[k] \in 1 .. MaxBinSize /\ n[k] = fewer(m[k]) /\ n[k] \in 1 .. MaxBinSize
    <2>1. GoodBin(b.cache[k], E)
        BY DEF GoodBundle
    <2>2. Len(b.cache[k]) \in Nat /\ Len(b.cache[k]) + 1 <= MaxBinSize
        BY <2>1, IsSeqFacts DEF GoodBin
    <2>3. b.cache[k] = <<>> <=> Len(b.cache[k]) = 0
        BY <2>1 DEF GoodBin, IsSeq
    <2>4. m[k] = Len(b.cache[k]) + 1 /\ n[k] = IF b.cache[k] = <<>> THEN 1 ELSE Len(b.cache[k])
        BY DEF MatchingCoeffs, InterpCoeffs
    <2> HIDE DEF m, n
    <2> QED
        BY <1>0, <2>2, <2>3, <2>4
<1>2. /\ c.felt_matching = IF b.stripped THEN <<>> ELSE m
      /\ c.batched_matching = Largest(m)
      /\ c.felt_interp = IF b.stripped \/ ~Labeled THEN <<>> ELSE n
      /\ c.batched_interp = IF Labeled THEN Largest(n) ELSE 0
    BY DEF SavedCache
<1> HIDE DEF m, n, c
<1>3. /\ \E k \in BinIdx : Largest(m) = m[k]
      /\ \A k \in BinIdx : m[k] <= Largest(m)
      /\ Largest(m) \in 0 .. MaxBinSize
    <2>1. \A k \in BinIdx : m[k] \in 0 .. MaxBinSize
        BY <1>0, <1>1
    <2> QED
        BY <1>0, <2>1, LargestIs
<1>4. /\ \E k \in BinIdx : Largest(n) = n[k]
      /\ \A k \in BinIdx : n[k] <= Largest(n)
      /\ Largest(n) \in 0 .. MaxBinSize
    <2>1. \A k \in BinIdx : n[k] \in 0 .. MaxBinSize
        BY <1>0, <1>1
    <2> QED
        BY <1>0, <2>1, LargestIs
<1>5. Largest(n) = fewer(Largest(m))
    <2>1. PICK i \in BinIdx : Largest(m) = m[i]
        BY <1>3
    <2>2. PICK j \in BinIdx : Largest(n) = n[j]
        BY <1>4
    <2>3. n[i] <= n[j] /\ m[j] <= m[i]
        BY <1>3, <1>4, <2>1, <2>2
    <2> QED
        BY <1>0, <1>1, <2>1, <2>2, <2>3
<1>6. c.batched_matching <= MaxBinSize /\ c.batched_interp <= MaxBinSize
    BY <1>0, <1>2, <1>3, <1>4
<1>7. ~b.stripped => c.felt_matching = m
    BY <1>2
<1>8. ~b.stripped /\ Labeled => c.felt_interp = n /\ c.batched_interp = Largest(n)
    BY <1>2
<1> HIDE DEF fewer
<1>9. ~b.stripped /\ Labeled =>
        /\ \A k \in BinIdx : c.felt_interp[k] = fewer(c.felt_matching[k])
        /\ c.batched_interp = fewer(c.batched_matching)
    BY <1>1, <1>2, <1>5, <1>7, <1>8
<1>10. ~b.stripped => c.batched_matching = Largest(c.felt_matching)
    BY <1>2, <1>7
<1> QED
    BY <1>6, <1>9, <1>10 DEF CacheAcceptable, c, fewer

\* What is saved of a good bundle comes back.
LEMMA SavedPartIsGood ==
    ASSUME NEW exact, NEW b, GoodBundle(b, SavedEntry, TRUE, exact), NEW idx
    PROVE  GoodPart(SaveBundle(b, idx), exact)
<1> DEFINE p == SaveBundle(b, idx)
<1>1. /\ p = [part |-> "bundle", bundle_idx |-> p.bundle_idx, item_bins |-> p.item_bins,
              stripped |-> p.stripped, cache |-> p.cache]
      /\ p.item_bins = b.bins /\ p.stripped = b.stripped
      /\ p.cache = IF b.cache_invalid THEN NoCache ELSE SavedCache(b)
    BY DEF SaveBundle
<1>2. SavedCache(b) # NoCache /\ SavedCache(b).content = b.cache
    BY DEF SavedCache, NoCache
<1> HIDE DEF p
<1>3. /\ b.cache_invalid \in BOOLEAN /\ b.stripped \in BOOLEAN
      /\ b.stripped => ~b.cache_invalid
      /\ ~b.stripped => DOMAIN b.bins = BinIdx
      /\ DOMAIN b = {"bins", "cache", "cache_invalid", "stripped"}
    BY Zenon DEF GoodBundle
<1>4. (p.cache = NoCache) = b.cache_invalid
    BY <1>1, <1>2, <1>3
<1>5. GoodBundle(LoadBundle(p), SavedEntry, TRUE, exact)
    <2> DEFINE l == LoadBundle(p)
    <2>1. /\ DOMAIN l = {"bins", "cache", "cache_invalid", "stripped"}
          /\ l.bins = (IF p.stripped THEN <<>> ELSE p.item_bins) /\ l.stripped = p.stripped
          /\ l.cache_invalid = (p.cache = NoCache)
          /\ l.cache = IF p.cache = NoCache THEN EmptyBins ELSE p.cache.content
        BY DEF LoadBundle
    <2> HIDE DEF l
    <2>2. l.cache_invalid = b.cache_invalid /\ l.stripped = b.stripped
        BY <1>1, <1>4, <2>1
    <2>3. l.cache = IF b.cache_invalid THEN EmptyBins ELSE b.cache
        BY <1>1, <1>2, <1>3, <2>1
    <2>4. DOMAIN <<>> = {}
        OBVIOUS
    <2>5. \A k \in DOMAIN l.bins : GoodBin(l.bins[k], SavedEntry)
        BY <1>1, <1>3, <2>1, <2>2, <2>4 DEF GoodBundle
    <2>6. \A k \in BinIdx : GoodBin(l.cache[k], SavedEntry)
        <3>1. \A k \in BinIdx : EmptyBins[k] = <<>>
            BY DEF EmptyBins
        <3>2. \A k \in BinIdx : GoodBin(b.cache[k], SavedEntry)
            BY Zenon DEF GoodBundle
        <3> QED
            BY <1>3, <2>3, <3>1, <3>2, EmptyBinIsGood
    <2>7. ~l.stripped => l.bins = b.bins
        BY <1>1, <2>1
    <2>8. ~b.cache_invalid => l.cache = b.cache
        BY <2>3
    <2>9. exact /\ ~l.stripped /\ ~l.cache_invalid => l.cache = l.bins
        BY <2>2, <2>7, <2>8, Zenon DEF GoodBundle
    <2>10. l.stripped \/ DOMAIN l.bins = BinIdx
        BY <1>3, <2>2, <2>7
    <2> QED
        BY <1>3, <2>1, <2>2, <2>5, <2>6, <2>9, <2>10, Zenon DEF GoodBundle, l
<1>6. ASSUME MaxBinSize > 1 PROVE BundleAcceptable(p)
    <2>1. p.stripped => p.cache # NoCache
        BY <1>1, <1>3, <1>4
    <2>2. ASSUME ~p.stripped
          PROVE  DOMAIN p.item_bins = BinIdx /\ \A k \in BinIdx : Len(p.item_bins[k]) <= MaxBinSize
        <3>1. DOMAIN b.bins = BinIdx /\ p.item_bins = b.bins
            BY <1>1, <1>3, <2>2
        <3>2. ASSUME NEW k \in BinIdx PROVE Len(b.bins[k]) <= MaxBinSize
            <4>1. GoodBin(b.bins[k], SavedEntry)
                BY <3>1 DEF GoodBundle
            <4> QED
                BY <1>6, <4>1, IsSeqFacts, BinBundleAssumption DEF GoodBin
        <3> QED
            BY <3>1, <3>2
    <2>3. ASSUME p.cache # NoCache PROVE CacheAcceptable(p.cache, p.stripped)
        <3>1. p.cache = SavedCache(b) /\ p.stripped = b.stripped
            BY <1>1, <2>3
        <3>2. CacheAcceptable(SavedCache(b), b.stripped)
            BY <1>6, CacheIsAcceptable, Zenon
        <3> QED
            BY <3>1, <3>2
    <2> QED
        BY <2>1, <2>2, <2>3, Zenon DEF BundleAcceptable
<1> QED
    BY <1>1, <1>5, <1>6, Zenon DEF GoodPart, p

\* Of a loaded bundle nothing is known but that its cache is used or made.
LEMMA LessExact ==
    ASSUME NEW E, NEW may, NEW exact, NEW b, GoodBundle(b, E, may, exact)
    PROVE  GoodBundle(b, E, may, FALSE)
BY Zenon DEF GoodBundle

LEMMA ZeroFilledIsGood ==
    ASSUME NEW exact, NEW p, GoodPart(p, exact)
    PROVE  GoodBundle(LoadBundle(ZeroFilled(p)), SavedEntry, TRUE, FALSE)
<1>0. GoodBundle(LoadBundle(p), SavedEntry, TRUE, FALSE)
    BY LessExact, Zenon DEF GoodPart
<1>1. p = [part |-> "bundle", bundle_idx |-> p.bundle_idx, item_bins |-> p.item_bins,
           stripped |-> p.stripped, cache |-> p.cache]
    BY Zenon DEF GoodPart
<1>2. CASE p.stripped
    <2>1. ZeroFilled(p) = p
        BY <1>2 DEF ZeroFilled
    <2> QED
        BY <1>0, <2>1
<1>3. CASE ~p.stripped
    <2> DEFINE bin == p.item_bins[0]
               filled == [m \in DOMAIN bin |-> IF m = Len(bin) THEN [bin[m] EXCEPT !.felt = Garbled] ELSE bin[m]]
               z == ZeroFilled(p)
               l == LoadBundle(p)
    <2>1. p.part = "bundle" /\ DOMAIN p = {"part", "bundle_idx", "item_bins", "stripped", "cache"}
        BY <1>1
    <2>2. /\ z.item_bins = [p.item_bins EXCEPT ![0] = filled]
          /\ z.stripped = p.stripped /\ z.cache = p.cache
        BY <1>3, <2>1 DEF ZeroFilled
    <2>3. /\ l.bins = p.item_bins /\ l.stripped = p.stripped /\ l.cache_invalid = (p.cache = NoCache)
          /\ l.cache = IF p.cache = NoCache THEN EmptyBins ELSE p.cache.content
        BY <1>3 DEF LoadBundle
    <2>4. /\ LoadBundle(z).bins = z.item_bins /\ LoadBundle(z).stripped = l.stripped
          /\ LoadBundle(z).cache_invalid = l.cache_invalid /\ LoadBundle(z).cache = l.cache
          /\ DOMAIN LoadBundle(z) = {"bins", "cache", "cache_invalid", "stripped"}
        BY <1>3, <2>2, <2>3 DEF LoadBundle
    <2> HIDE DEF z, l
    <2>5. DOMAIN p.item_bins = BinIdx /\ 0 \in BinIdx
        BY <1>0, <1>3, <2>3, BinBundleAssumption DEF GoodBundle, BinIdx, l
    <2>6. GoodBin(bin, SavedEntry)
        BY <1>0, <2>3, <2>5, Zenon DEF GoodBundle, l
    <2>7. GoodBin(filled, SavedEntry)
        <3>1. /\ IsSeq(bin) /\ Len(bin) \in Nat /\ DOMAIN bin = 1 .. Len(bin)
              /\ \A m \in DOMAIN bin : bin[m] \in SavedEntry
            BY <2>6, IsSeqFacts DEF GoodBin
        <3>2. ASSUME NEW m \in DOMAIN bin
              PROVE  [bin[m] EXCEPT !.felt = Garbled] \in SavedEntry
                     /\ [bin[m] EXCEPT !.felt = Garbled].felt = Garbled
            <4>1. bin[m] \in SavedEntry
                BY <3>1
            <4> QED
                BY <4>1 DEF SavedEntry
        <3>3. DOMAIN filled = 1 .. Len(bin) /\ \A m \in 1 .. Len(bin) : filled[m] \in SavedEntry
            BY <3>1, <3>2
        <3>4. \A m \in DOMAIN bin : filled[m].felt = IF m = Len(bin) THEN Garbled ELSE bin[m].felt
            BY <3>2
        <3>5. filled = [m \in 1 .. Len(bin) |-> filled[m]]
            BY <3>1
        <3> HIDE DEF filled
        <3>6. filled \in [1 .. Len(bin) -> SavedEntry]
            BY <3>3, <3>5
        <3>7. filled \in Seq(SavedEntry)
            BY <3>1, <3>6, TupleIsSeq
        <3>8. Len(filled) = Len(bin) /\ IsSeq(filled)
            BY <3>1, <3>3, <3>7, SeqIsSeq
        <3>9. Labeled => \A m, n \in DOMAIN filled :
                           filled[m].felt = filled[n].felt /\ filled[m].felt # Garbled => m = n
            <4> SUFFICES ASSUME Labeled, NEW m \in DOMAIN bin, NEW n \in DOMAIN bin,
                                filled[m].felt = filled[n].felt, filled[m].felt # Garbled
                         PROVE  m = n
                BY <3>1, <3>3
            <4>1. bin[m].felt = bin[n].felt /\ bin[m].felt # Garbled
                BY <3>4
            <4> QED
                BY <2>6, <4>1 DEF GoodBin
        <3> QED
            BY <2>6, <3>1, <3>3, <3>8, <3>9 DEF GoodBin
    <2> HIDE DEF filled, bin
    <2>8. \A k \in BinIdx : GoodBin(z.item_bins[k], SavedEntry)
        <3>1. \A k \in BinIdx : GoodBin(p.item_bins[k], SavedEntry)
            BY <1>0, <2>3, <2>5, Zenon DEF GoodBundle, l
        <3>2. \A k \in BinIdx : z.item_bins[k] = IF k = 0 THEN filled ELSE p.item_bins[k]
            BY <2>2, <2>5
        <3> QED
            BY <2>7, <3>1, <3>2
    <2>9. DOMAIN z.item_bins = BinIdx
        BY <2>2, <2>5
    <2>10. /\ \A k \in BinIdx : GoodBin(l.cache[k], SavedEntry)
           /\ l.cache_invalid \in BOOLEAN /\ l.stripped \in BOOLEAN
           /\ l.stripped => ~l.cache_invalid
        BY <1>0, Zenon DEF GoodBundle, l
    <2> QED
        BY <2>4, <2>8, <2>9, <2>10, Zenon DEF GoodBundle, z
<1> QED
    BY <1>2, <1>3

LEMMA Weaken ==
    ASSUME NEW E, NEW may, NEW e1, NEW e2, e2 => e1, NEW b, GoodBundle(b, E, may, e1)
    PROVE  GoodBundle(b, E, may, e2)
BY Zenon DEF GoodBundle

\* A database that was loaded is good and has all its caches.
LEMMA LoadedIsGood ==
    ASSUME NEW f, GoodParts(f.parts), NEW strict, LoadAccepts(f, strict),
           NEW bundles \in LoadedBundles(f)
    PROVE  GoodDb(Loaded(f, bundles)) /\ ~Stale(Loaded(f, bundles))
<1> DEFINE h == f.parts[1]
           exact == ~(h.garbled \/ Hidden(f) # {})
           d == Loaded(f, bundles)
<1>1. 1 \in DOMAIN f.parts /\ GoodHeader(h)
    BY DEF LoadAccepts, Readable, GoodParts
<1>2. ASSUME NEW n \in BundleParts(f) PROVE GoodPart(f.parts[n], ~h.garbled)
    <2>1. n \in DOMAIN f.parts
        BY DEF LoadAccepts, Readable
    <2>2. n \in 2 .. h.bin_bundle_count + 1
        BY DEF BundleParts
    <2> HIDE DEF h
    <2> QED
        BY <1>1, <2>1, <2>2 DEF GoodParts, h
<1>3. ASSUME NEW n \in BundleParts(f)
      PROVE  GoodBundle(LoadBundle(ReadPart(f, n)), SavedEntry, TRUE, exact)
    <2>1. GoodPart(f.parts[n], ~h.garbled)
        BY <1>2
    <2>2. CASE ReadPart(f, n) = f.parts[n]
        <3>1. GoodBundle(LoadBundle(f.parts[n]), SavedEntry, TRUE, ~h.garbled)
            BY <2>1, Zenon DEF GoodPart
        <3>2. exact => ~h.garbled
            OBVIOUS
        <3> HIDE DEF exact, h
        <3>3. GoodBundle(LoadBundle(f.parts[n]), SavedEntry, TRUE, exact)
            BY <3>1, <3>2, Weaken, Zenon
        <3> QED
            BY <2>2, <3>3
    <2>3. CASE ReadPart(f, n) # f.parts[n]
        <3>1. ReadPart(f, n) = ZeroFilled(f.parts[n])
            BY <2>3 DEF ReadPart
        <3>2. n \in Hidden(f)
            BY <2>3 DEF Hidden
        <3>3. exact => FALSE
            BY <3>2
        <3> HIDE DEF exact, h
        <3>4. GoodBundle(LoadBundle(ZeroFilled(f.parts[n])), SavedEntry, TRUE, FALSE)
            BY <2>1, ZeroFilledIsGood, Zenon
        <3>5. GoodBundle(LoadBundle(ZeroFilled(f.parts[n])), SavedEntry, TRUE, exact)
            BY <3>3, <3>4, Weaken, Zenon
        <3> QED
            BY <3>1, <3>5
    <2> QED
        BY <2>2, <2>3
<1> DEFINE partsAt(idx) == {n \in BundleParts(f) : f.parts[n].bundle_idx = idx}
           raw(o, idx) == [j \in DOMAIN o[idx] |-> LoadBundle(ReadPart(f, o[idx][j]))]
<1>4. PICK o : /\ \A idx \in BundleIdx : o[idx] \in SetToSeqs(partsAt(idx))
               /\ bundles = GenerateCaches([idx \in BundleIdx |-> raw(o, idx)])
    BY DEF LoadedBundles
<1> HIDE DEF exact, h
<1>5. ASSUME NEW idx \in BundleIdx
      PROVE  GoodSet(bundles[idx], SavedEntry, TRUE, exact)
             /\ \A j \in DOMAIN bundles[idx] : ~bundles[idx][j].cache_invalid
    <2> DEFINE c == Cardinality(partsAt(idx))
    <2>1. c \in Nat
        <3>1. IsFiniteSet(BundleParts(f))
            BY <1>1, FS_Interval DEF BundleParts, GoodHeader, h
        <3> QED
            BY <3>1, FS_Subset, FS_CardinalityType
    <2>2. o[idx] \in [1 .. c -> partsAt(idx)]
        BY <1>4 DEF SetToSeqs
    <2> HIDE DEF c
    <2>3. DOMAIN o[idx] = 1 .. c /\ \A j \in 1 .. c : o[idx][j] \in BundleParts(f)
        BY <2>2
    <2>4. GoodSet(raw(o, idx), SavedEntry, TRUE, exact)
        <3> DEFINE r == raw(o, idx)
                   S == {r[j] : j \in 1 .. c}
        <3>1. DOMAIN r = 1 .. c /\ \A j \in 1 .. c : r[j] = LoadBundle(ReadPart(f, o[idx][j]))
            BY <2>3
        <3>2. r = [j \in 1 .. c |-> r[j]]
            BY <3>1
        <3> HIDE DEF r
        <3>3. \A j \in 1 .. c : r[j] \in S
            OBVIOUS
        <3> HIDE DEF S
        <3>4. r \in [1 .. c -> S]
            BY <3>2, <3>3
        <3>5. IsSeq(r)
            BY <2>1, <3>4, TupleIsSeq, SeqIsSeq, Zenon
        <3>6. \A j \in DOMAIN r : GoodBundle(r[j], SavedEntry, TRUE, exact)
            BY <1>3, <2>3, <3>1
        <3> QED
            BY <3>5, <3>6, Zenon DEF GoodSet, r
    <2>5. bundles[idx] = [j \in DOMAIN raw(o, idx) |-> RegenCache(raw(o, idx)[j])]
        BY <1>4 DEF GenerateCaches
    <2> HIDE DEF raw
    <2> DEFINE set == raw(o, idx)
               new == bundles[idx]
    <2>6. /\ DOMAIN new = DOMAIN set /\ \A j \in DOMAIN set : new[j] = RegenCache(set[j])
          /\ new = [j \in DOMAIN set |-> new[j]]
        BY <2>5
    <2> HIDE DEF set, new
    <2>7. GoodSet(set, SavedEntry, TRUE, exact)
        BY <2>4 DEF set
    <2>8. GoodSet(new, SavedEntry, TRUE, exact)
        BY <2>6, <2>7, RegenSet, Zenon
    <2>9. \A j \in DOMAIN new : ~new[j].cache_invalid
        BY <2>6, RegenIsFresh, Zenon
    <2> QED
        BY <2>8, <2>9, Zenon DEF new
<1>6. /\ DOMAIN d = DbFields /\ d.bundles = bundles /\ d.stripped = h.stripped
      /\ d.item_count = h.item_count /\ d.content = h.content
      /\ d.garbled = (h.garbled \/ Hidden(f) # {})
      /\ d.hashed_items = IF h.stripped THEN {} ELSE h.hashed_items
    BY DEF Loaded, DbFields, h
<1> HIDE DEF d
<1>7. ~Stale(d)
    BY <1>5, <1>6 DEF Stale, Bundles, ToSet
<1>8. Counted(d)
    BY <1>1, <1>6 DEF GoodHeader, Counted
<1>9. exact = ~d.garbled
    BY <1>1, <1>6 DEF exact
<1>10. \A idx \in BundleIdx : GoodSet(d.bundles[idx], SavedEntry, TRUE, ~d.garbled)
    BY <1>5, <1>6, <1>9
<1> QED
    BY <1>6, <1>7, <1>8, <1>10 DEF GoodDb, d

\* What save() writes: the header, then bundle index by bundle index.
PartsFor(d, n) == [j \in DOMAIN d.bundles[n - 1] |-> SaveBundle(d.bundles[n - 1][j], n - 1)]

SavedUpTo(d, upTo) ==
    /\ SavedParts(d) = upTo[BundleIdxCount]
    /\ upTo[0] = <<Header(d)>>
    /\ \A n \in 1 .. BundleIdxCount : IsSeq(PartsFor(d, n)) /\ upTo[n] = upTo[n - 1] \o PartsFor(d, n)

LEMMA SavedPartsAre ==
    ASSUME NEW d, GoodDb(d)
    PROVE  LET w == SavedParts(d)
               c == BundlesIn(d.bundles)
           IN  /\ \E upTo : SavedUpTo(d, upTo)
               /\ IsSeq(w) /\ Len(w) = c + 1 /\ c \in Nat /\ w[1] = Header(d)
               /\ \A m \in 2 .. c + 1 : \E b \in Bundles(d), idx \in BundleIdx : w[m] = SaveBundle(b, idx)
<1> DEFINE N == BundleIdxCount
           part(n) == PartsFor(d, n)
           B == {SaveBundle(b, idx) : b \in Bundles(d), idx \in BundleIdx}
           Q == {Header(d)} \cup B
           F == [n \in 1 .. N |-> [s \in Seq(Q) |-> s \o part(n)]]
           base == <<Header(d)>>
           Is(u) == u = [n \in 0 .. N |-> IF n = 0 THEN base ELSE u[n - 1] \o part(n)]
           upTo == CHOOSE u : Is(u)
<1>1. N \in Nat /\ \A n \in 1 .. N : n - 1 \in BundleIdx
    BY BundleSetAssumption DEF BundleIdx
<1>2. \A idx \in BundleIdx : GoodSet(d.bundles[idx], SavedEntry, TRUE, ~d.garbled)
    BY DEF GoodDb
<1>3. \A idx \in BundleIdx : IsSeq(d.bundles[idx]) /\ Len(d.bundles[idx]) \in Nat
                              /\ DOMAIN d.bundles[idx] = 1 .. Len(d.bundles[idx])
    BY <1>2, IsSeqFacts DEF GoodSet
<1>5. ASSUME NEW n \in 1 .. N
      PROVE  part(n) \in Seq(B) /\ Len(part(n)) = Len(d.bundles[n - 1])
    <2> DEFINE c == Len(d.bundles[n - 1])
               p == part(n)
    <2>1. c \in Nat /\ DOMAIN d.bundles[n - 1] = 1 .. c /\ n - 1 \in BundleIdx
        BY <1>1, <1>3
    <2>2. \A j \in 1 .. c : d.bundles[n - 1][j] \in Bundles(d)
        BY <2>1 DEF Bundles, ToSet
    <2>3. DOMAIN p = 1 .. c /\ p = [j \in 1 .. c |-> p[j]]
        BY <2>1 DEF PartsFor
    <2>4. \A j \in 1 .. c : p[j] \in B
        BY <2>1, <2>2 DEF PartsFor
    <2> HIDE DEF p, c, B
    <2>5. p \in [1 .. c -> B]
        BY <2>3, <2>4
    <2>6. p \in Seq(B)
        BY <2>1, <2>5, TupleIsSeq
    <2>7. Len(p) = c
        BY <2>1, <2>3, <2>6
    <2> QED
        BY <2>6, <2>7 DEF p, c
<1> HIDE DEF part, B
<1>6. \A n \in 1 .. N : part(n) \in Seq(Q)
    <2>1. Seq(B) \subseteq Seq(Q)
        OBVIOUS
    <2> QED
        BY <1>5, <2>1
<1>7. base \in Seq(Q) /\ Len(base) = 1 /\ base[1] = Header(d)
    OBVIOUS
<1> HIDE DEF Q
<1>8. F \in [1 .. N -> [Seq(Q) -> Seq(Q)]]
    BY <1>6
<1>9. \A s \in Seq(Q), n \in 1 .. N : F[n][s] = s \o part(n)
    OBVIOUS
<1> HIDE DEF F
<1>10. PICK g : SolvesRecursion(g, N, Seq(Q), base, F)
    <2> HIDE DEF N
    <2> QED
        BY <1>1, <1>7, <1>8, RecursionExists, Zenon
<1>11. Is(g)
    <2>1. g \in [0 .. N -> Seq(Q)] /\ g[0] = base /\ \A n \in 1 .. N : g[n] = F[n][g[n - 1]]
        BY <1>10, Zenon DEF SolvesRecursion
    <2>2. \A n \in 1 .. N : g[n] = g[n - 1] \o part(n)
        <3> HIDE DEF N
        <3> SUFFICES ASSUME NEW n \in 1 .. N PROVE g[n] = g[n - 1] \o part(n)
            OBVIOUS
        <3>1. n - 1 \in 0 .. N
            BY <1>1
        <3>2. g[n - 1] \in Seq(Q)
            BY <2>1, <3>1
        <3> QED
            BY <1>9, <2>1, <3>2
    <2>3. DOMAIN g = 0 .. N /\ g = [n \in 0 .. N |-> g[n]]
        BY <2>1
    <2>4. \A n \in 0 .. N : g[n] = IF n = 0 THEN base ELSE g[n - 1] \o part(n)
        <3> HIDE DEF base, N
        <3>1. \A n \in 0 .. N : n = 0 \/ n \in 1 .. N
            BY <1>1
        <3>2. \A n \in 1 .. N : n # 0
            OBVIOUS
        <3> QED
            BY <2>1, <2>2, <3>1, <3>2, Zenon
    <2> QED
        BY <2>3, <2>4
<1>12. Is(upTo)
    BY <1>11
<1>13. SavedParts(d) = upTo[N]
    BY DEF SavedParts, part, PartsFor
<1> HIDE DEF upTo, base
<1>14. /\ upTo[0] = base
       /\ \A n \in 1 .. N : upTo[n] = upTo[n - 1] \o part(n)
    <2>1. \A n \in 0 .. N : upTo[n] = IF n = 0 THEN base ELSE upTo[n - 1] \o part(n)
        BY <1>12, Zenon
    <2> HIDE DEF N
    <2>2. 0 \in 0 .. N /\ \A n \in 1 .. N : n \in 0 .. N /\ n # 0
        BY <1>1
    <2> QED
        BY <2>1, <2>2, Zenon
<1>15. PICK below : /\ \A n \in 0 .. N : below[n] \in Nat
                    /\ below[0] = 0
                    /\ \A n \in 1 .. N : below[n] = below[n - 1] + Len(d.bundles[n - 1])
                    /\ BundlesIn(d.bundles) = below[N]
    BY <1>3, CountsBundles, Zenon
<1> DEFINE Fine(n) == /\ upTo[n] \in Seq(Q) /\ Len(upTo[n]) = below[n] + 1
                      /\ upTo[n][1] = Header(d)
                      /\ \A m \in 2 .. Len(upTo[n]) : upTo[n][m] \in B
           S == {n \in 0 .. N : Fine(n)}
<1>16. 0 \in S
    <2> HIDE DEF N
    <2>1. 0 \in 0 .. N /\ Len(upTo[0]) = below[0] + 1
        BY <1>1, <1>7, <1>14, <1>15
    <2>2. \A m \in 2 .. Len(upTo[0]) : upTo[0][m] \in B
      <3>1. Len(upTo[0]) = 1 /\ 2 .. 1 = {}
          BY <1>7, <1>14
      <3> QED
          BY <3>1
    <2> QED
        BY <1>7, <1>14, <2>1, <2>2
<1>17. ASSUME NEW n \in 1 .. N, n - 1 \in S PROVE n \in S
    <2> DEFINE s == upTo[n - 1]
               t == part(n)
               u == upTo[n]
    <2>1. /\ s \in Seq(Q) /\ Len(s) = below[n - 1] + 1 /\ s[1] = Header(d)
          /\ \A m \in 2 .. Len(s) : s[m] \in B
        BY <1>17
    <2>2. t \in Seq(B) /\ t \in Seq(Q) /\ Len(t) = Len(d.bundles[n - 1])
        BY <1>5, <1>6
    <2>3. u = s \o t
        BY <1>14
    <2>4. below[n - 1] \in Nat /\ below[n] = below[n - 1] + Len(t) /\ n \in 0 .. N
        BY <1>1, <1>15, <2>2
    <2> DEFINE x == below[n - 1]
               y == below[n]
    <2>a. x \in Nat /\ y = x + Len(t) /\ Len(s) = x + 1
        BY <2>1, <2>4
    <2> HIDE DEF s, t, u, x, y
    <2>5. u \in Seq(Q) /\ Len(u) = Len(s) + Len(t)
        BY <2>1, <2>2, <2>3, ConcatProperties, Zenon
    <2>b. Len(t) \in Nat
        BY <2>2
    <2>c. Len(u) = y + 1
        BY <2>a, <2>b, <2>5
    <2>6. Len(u) = below[n] + 1
        BY <2>c DEF y
    <2>7. \A m \in 1 .. Len(s) : u[m] = s[m]
        BY <2>1, <2>2, <2>3
    <2>8. u[1] = Header(d)
        BY <2>1, <2>4, <2>7
    <2>9. ASSUME NEW m \in 2 .. Len(u) PROVE u[m] \in B
        <3>1. CASE m <= Len(s)
            BY <2>1, <2>7, <2>9, <3>1
        <3>2. CASE m > Len(s)
            <4> DEFINE a == Len(s)
                       b == Len(t)
                       e == Len(u)
            <4>a. a \in Nat /\ b \in Nat /\ e = a + b /\ m \in 2 .. e /\ m > a
                BY <2>1, <2>2, <2>5, <3>2
            <4> HIDE DEF a, b, e
            <4>b. m \in a + 1 .. a + b /\ m - a \in 1 .. b
                BY <4>a
            <4>1. m \in Len(s) + 1 .. Len(s) + Len(t) /\ m - Len(s) \in 1 .. Len(t)
                BY <4>b, Zenon DEF a, b
            <4>2. u[m] = t[m - Len(s)]
                BY <2>1, <2>2, <2>3, <4>1, ConcatAt
            <4> QED
                BY <2>2, <4>1, <4>2
        <3> QED
            BY <2>1, <2>4, <3>1, <3>2
    <2> QED
        BY <2>4, <2>5, <2>6, <2>8, <2>9 DEF u
<1>18. Fine(N)
    <2>1. 0 .. N \subseteq S
        <3> HIDE DEF S, N
        <3> QED
            BY <1>1, <1>16, <1>17, UpTo
    <2> QED
        BY <1>1, <2>1
<1> DEFINE w == SavedParts(d)
           c == BundlesIn(d.bundles)
<1>19. /\ w \in Seq(Q) /\ Len(w) = c + 1 /\ c \in Nat /\ w[1] = Header(d)
       /\ \A m \in 2 .. c + 1 : w[m] \in B
    BY <1>1, <1>13, <1>15, <1>18
<1>20. IsSeq(w)
    BY <1>19, SeqIsSeq
<1>21. \A n \in 1 .. N : IsSeq(part(n))
    BY <1>5, SeqIsSeq
<1>22. SavedUpTo(d, upTo)
    BY <1>13, <1>14, <1>21 DEF SavedUpTo, part, base
<1>23. \A m \in 2 .. c + 1 : \E b \in Bundles(d), idx \in BundleIdx : w[m] = SaveBundle(b, idx)
    BY <1>19 DEF B
<1> HIDE DEF w, c, upTo
<1> QED
    BY <1>19, <1>20, <1>22, <1>23 DEF w, c

\* What save() writes of a good database is whole, whatever follows it.
LEMMA SavedIsWhole ==
    ASSUME NEW d, GoodDb(d), NEW rest, IsSeq(rest)
    PROVE  WholeDb(SavedParts(d) \o rest)
<1> DEFINE B == {SaveBundle(b, idx) : b \in Bundles(d), idx \in BundleIdx}
           w == SavedParts(d)
           q == w \o rest
           c == BundlesIn(d.bundles)
<1>2. \A idx \in BundleIdx : GoodSet(d.bundles[idx], SavedEntry, TRUE, ~d.garbled)
    BY DEF GoodDb
<1>4. \A sb \in B : GoodPart(sb, ~d.garbled)
    <2>1. ASSUME NEW b \in Bundles(d), NEW idx \in BundleIdx
          PROVE  GoodPart(SaveBundle(b, idx), ~d.garbled)
        <3>1. PICK i \in BundleIdx : \E j \in DOMAIN d.bundles[i] : b = d.bundles[i][j]
            BY DEF Bundles, ToSet
        <3>2. GoodBundle(b, SavedEntry, TRUE, ~d.garbled)
            BY <1>2, <3>1, Zenon DEF GoodSet
        <3> QED
            BY <3>2, SavedPartIsGood, Zenon
    <2> QED
        BY <2>1
<1>19. /\ IsSeq(w) /\ Len(w) = c + 1 /\ c \in Nat /\ w[1] = Header(d)
       /\ \A m \in 2 .. c + 1 : w[m] \in B
    BY SavedPartsAre
<1> HIDE DEF B
<1>20. IsSeq(w) /\ DOMAIN w = 1 .. c + 1
    BY <1>19, IsSeqFacts
<1> HIDE DEF w, c
<1>21. /\ IsSeq(q) /\ Len(q) = c + 1 + Len(rest) /\ Len(rest) \in Nat
       /\ \A m \in 1 .. c + 1 : q[m] = w[m]
    <2>1. IsSeq(q) /\ Len(q) = Len(w) + Len(rest) /\ \A m \in DOMAIN w : q[m] = w[m]
        BY <1>20, ConcatSeqs, Zenon
    <2>2. Len(rest) \in Nat
        BY IsSeqFacts
    <2> HIDE DEF q
    <2> QED
        BY <1>19, <1>20, <2>1, <2>2
<1> HIDE DEF q
<1>22. q[1] = Header(d) /\ q # <<>> /\ Len(q) > c
    BY <1>19, <1>21
<1>23. /\ Header(d).bin_bundle_count = c /\ Header(d).garbled = d.garbled
       /\ Header(d).content = d.content /\ Header(d).stripped = d.stripped
       /\ Header(d).item_count = d.item_count /\ Header(d).hashed_items = d.hashed_items
    BY DEF Header, c
<1>24. GoodHeader(q[1])
    <2>1. Counted(d)
        BY DEF GoodDb
    <2> QED
        BY <1>19, <1>22, <1>23, <2>1 DEF GoodHeader, Counted
<1>25. \A n \in 2 .. c + 1 : GoodPart(q[n], ~q[1].garbled)
    <2> SUFFICES ASSUME NEW n \in 2 .. c + 1 PROVE GoodPart(q[n], ~q[1].garbled)
        OBVIOUS
    <2>1. n \in 1 .. c + 1
        BY <1>19
    <2>2. q[n] \in B
        BY <1>19, <1>21, <2>1
    <2>3. GoodPart(q[n], ~d.garbled)
        BY <1>4, <2>2
    <2> QED
        BY <1>22, <1>23, <2>3
<1>26. GoodParts(q)
    BY <1>21, <1>22, <1>23, <1>24, <1>25 DEF GoodParts
<1> QED
    BY <1>22, <1>23, <1>26 DEF WholeDb, q, w

\* The beginning of what was to be written.
LEMMA PrefixIsGood ==
    ASSUME NEW s, IsSeq(s), NEW t, IsSeq(t), GoodParts(s \o t) PROVE GoodParts(s)
<1> DEFINE q == s \o t
<1>1. /\ DOMAIN s = 1 .. Len(s) /\ Len(s) \in Nat /\ Len(t) \in Nat
      /\ DOMAIN q = 1 .. Len(s) + Len(t)
      /\ \A i \in DOMAIN s : q[i] = s[i]
    BY IsSeqFacts, ConcatSeqs
<1> HIDE DEF q
<1>2. DOMAIN s \subseteq DOMAIN q
    BY <1>1
<1>3. GoodParts(q)
    BY DEF q
<1>4. ASSUME s # <<>>
      PROVE  /\ GoodHeader(s[1])
             /\ \A n \in DOMAIN s \cap (2 .. s[1].bin_bundle_count + 1) : GoodPart(s[n], ~s[1].garbled)
    <2>1. 1 \in DOMAIN s
        BY <1>1, <1>4 DEF IsSeq
    <2>2. q # <<>> /\ q[1] = s[1]
        BY <1>1, <1>2, <2>1
    <2> QED
        BY <1>1, <1>2, <1>3, <2>2 DEF GoodParts
<1> QED
    BY <1>4 DEF GoodParts

-----------------------------------------------------------------------------
(***************************************************************************)
(* Changes keep a database good                                            *)
(***************************************************************************)
LEMMA DatumFelts == \A d \in Datum : d.item \in Items /\ Algebraize(d) \in Seq(SavedEntry)
<1> SUFFICES ASSUME NEW d \in Datum PROVE Algebraize(d) \in Seq(SavedEntry)
    BY DEF Datum
<1>1. d.item \in Items /\ d.label \in Labels \cup {NoLabel}
    BY DEF Datum
<1>2. ASSUME NEW j \in 1 .. FeltsPerItem PROVE Algebraize(d)[j] \in SavedEntry
    <2>1. ItemFelts[d.item][j] \in ToSet(ItemFelts[d.item])
        BY <1>1, BundleSetAssumption
    <2>2. ItemFelts[d.item][j] \in {Garbled} \cup UNION {ToSet(ItemFelts[i]) : i \in Items}
        BY <1>1, <2>1
    <2>3. <<d.item, d.label>> \in Items \X (Labels \cup {NoLabel})
        BY <1>1
    <2>4. Algebraize(d)[j] = [felt |-> ItemFelts[d.item][j],
                              label |-> IF Labeled THEN <<d.item, d.label>> ELSE NoLabel]
        BY DEF Algebraize
    <2> QED
        BY <2>2, <2>3, <2>4 DEF SavedEntry
<1>3. Algebraize(d) \in [1 .. FeltsPerItem -> SavedEntry]
    BY <1>2 DEF Algebraize
<1> QED
    BY <1>3, TupleIsSeq, BundleSetAssumption

\* The recursion of RunTask has a solution.
Ran(set, op, task, g, n) ==
    g = [m \in 0 .. n |-> IF m = 0 THEN Result(set, FALSE)
                          ELSE IF g[m - 1].threw THEN g[m - 1]
                          ELSE WorkItem(g[m - 1].set, op, task[m])]

LEMMA RunExists == ASSUME NEW set, NEW op, NEW task, NEW n \in Nat PROVE \E g : Ran(set, op, task, g, n)
<1> DEFINE Step(r, m) == IF r.threw THEN r ELSE WorkItem(r.set, op, task[m])
           base == Result(set, FALSE)
           Is(g, k) == g = [m \in 0 .. k |-> IF m = 0 THEN base ELSE Step(g[m - 1], m)]
           S == {k \in 0 .. n : \E g : Is(g, k)}
<1> HIDE DEF Step, base
<1>1. 0 \in S
    <2> DEFINE g == [m \in 0 .. 0 |-> base]
    <2>1. Is(g, 0)
        OBVIOUS
    <2> HIDE DEF g, Is
    <2> QED
        BY <2>1
<1>2. ASSUME NEW k \in 1 .. n, k - 1 \in S PROVE k \in S
    <2>1. PICK g : Is(g, k - 1)
        BY <1>2
    <2> DEFINE last == Step(g[k - 1], k)
               h == [m \in 0 .. k |-> IF m = k THEN last ELSE g[m]]
    <2>2. \A m \in 0 .. k - 1 : g[m] = IF m = 0 THEN base ELSE Step(g[m - 1], m)
        BY <2>1, Zenon
    <2>3. DOMAIN h = 0 .. k /\ h = [m \in 0 .. k |-> h[m]] /\ h[k] = last
          /\ \A m \in 0 .. k - 1 : h[m] = g[m]
        OBVIOUS
    <2> HIDE DEF h, last
    <2>4. ASSUME NEW m \in 0 .. k PROVE h[m] = IF m = 0 THEN base ELSE Step(h[m - 1], m)
        <3>1. CASE m = k
            <4>1. k - 1 \in 0 .. k - 1 /\ m # 0
                BY <3>1
            <4> QED
                BY <2>3, <3>1, <4>1 DEF last
        <3>2. CASE m # k
            <4>1. m \in 0 .. k - 1 /\ (m # 0 => m - 1 \in 0 .. k - 1)
                BY <3>2
            <4> QED
                BY <2>2, <2>3, <4>1
        <3> QED
            BY <3>1, <3>2
    <2>5. Is(h, k)
        BY <2>3, <2>4
    <2> HIDE DEF Is
    <2> QED
        BY <2>5
<1>3. n \in S
    <2> HIDE DEF S
    <2>1. 0 .. n \subseteq S
        BY <1>1, <1>2, UpTo
    <2> QED
        BY <2>1
<1>4. PICK g : Is(g, n)
    BY <1>3
<1>5. Ran(set, op, task, g, n)
    BY <1>4, Zenon DEF Ran, Step, base
<1> QED
    BY <1>5

LEMMA RunTaskIsGood ==
    ASSUME NEW E, NEW may, NEW exact, NEW set, GoodSet(set, E, may, exact), NEW op, NEW task \in Seq(Entries(E))
    PROVE  GoodSet(RunTask(set, op, task).set, E, may, exact)
<1> DEFINE n == Len(task)
           g == CHOOSE f : Ran(set, op, task, f, n)
           S == {m \in 0 .. n : GoodSet(g[m].set, E, may, exact)}
<1>1. n \in Nat /\ \A m \in 1 .. n : task[m] \in Entries(E)
    OBVIOUS
<1>2. Ran(set, op, task, g, n)
    BY <1>1, RunExists
<1>3. RunTask(set, op, task) = g[n]
    BY Zenon DEF RunTask, Ran
<1> HIDE DEF g, n
<1>4. \A m \in 0 .. n : g[m] = IF m = 0 THEN Result(set, FALSE)
                               ELSE IF g[m - 1].threw THEN g[m - 1]
                               ELSE WorkItem(g[m - 1].set, op, task[m])
    BY <1>2, Zenon DEF Ran
<1>5. 0 \in S
    <2>1. 0 \in 0 .. n /\ Result(set, FALSE).set = set
        BY <1>1 DEF Result
    <2>2. g[0].set = set
        BY <1>4, <2>1
    <2> QED
        BY <2>1, <2>2
<1>6. ASSUME NEW m \in 1 .. n, m - 1 \in S PROVE m \in S
    <2>1. m \in 0 .. n /\ m # 0 /\ GoodSet(g[m - 1].set, E, may, exact) /\ task[m] \in Entries(E)
        BY <1>1, <1>6
    <2>2. GoodSet(WorkItem(g[m - 1].set, op, task[m]).set, E, may, exact)
        BY <2>1, WorkItemIsGood, Zenon
    <2>3. g[m] = g[m - 1] \/ g[m] = WorkItem(g[m - 1].set, op, task[m])
        BY <1>4, <2>1, Zenon
    <2>4. GoodSet(g[m].set, E, may, exact)
        BY <2>1, <2>2, <2>3, Zenon
    <2> QED
        BY <2>1, <2>4
<1>7. n \in S
    <2> HIDE DEF S
    <2>1. 0 .. n \subseteq S
        BY <1>1, <1>5, <1>6, UpTo
    <2> QED
        BY <1>1, <2>1
<1> QED
    BY <1>3, <1>7

LEMMA RunTasksAreGood ==
    ASSUME NEW d, GoodDb(d), NEW op, NEW data \in Seq(Datum), NEW idx \in BundleIdx
    PROVE  GoodSet(RunTasks(d.bundles, op, data)[idx].set, SavedEntry, TRUE, ~d.garbled)
<1>1. GoodSet(d.bundles[idx], SavedEntry, TRUE, ~d.garbled)
    BY DEF GoodDb
<1>2. TaskOf(data, idx) \in Seq(Entries(SavedEntry))
    BY DatumFelts, TaskOfType, Zenon
<1>3. RunTasks(d.bundles, op, data)[idx] = RunTask(d.bundles[idx], op, TaskOf(data, idx))
    BY DEF RunTasks
<1>4. GoodSet(RunTask(d.bundles[idx], op, TaskOf(data, idx)).set, SavedEntry, TRUE, ~d.garbled)
    BY <1>1, <1>2, RunTaskIsGood, Zenon
<1> QED
    BY <1>3, <1>4, Zenon

\* A database all of whose caches are made.
LEMMA CachesAreMade ==
    ASSUME NEW bb, NEW exact, \A idx \in BundleIdx : GoodSet(bb[idx], SavedEntry, TRUE, exact)
    PROVE  \A idx \in BundleIdx :
             /\ GoodSet(GenerateCaches(bb)[idx], SavedEntry, TRUE, exact)
             /\ \A j \in DOMAIN GenerateCaches(bb)[idx] : ~GenerateCaches(bb)[idx][j].cache_invalid
<1> SUFFICES ASSUME NEW idx \in BundleIdx
             PROVE  /\ GoodSet(GenerateCaches(bb)[idx], SavedEntry, TRUE, exact)
                    /\ \A j \in DOMAIN GenerateCaches(bb)[idx] : ~GenerateCaches(bb)[idx][j].cache_invalid
    OBVIOUS
<1> DEFINE set == bb[idx]
           new == GenerateCaches(bb)[idx]
<1>1. /\ DOMAIN new = DOMAIN set /\ \A j \in DOMAIN set : new[j] = RegenCache(set[j])
      /\ new = [j \in DOMAIN set |-> new[j]]
    BY DEF GenerateCaches
<1>2. GoodSet(set, SavedEntry, TRUE, exact)
    OBVIOUS
<1> HIDE DEF set, new
<1>3. GoodSet(new, SavedEntry, TRUE, exact)
    BY <1>1, <1>2, RegenSet, Zenon
<1>4. \A j \in DOMAIN new : ~new[j].cache_invalid
    BY <1>1, RegenIsFresh, Zenon
<1> QED
    BY <1>3, <1>4, Zenon DEF new

\* The items that are inserted are all different.
LEMMA FirstsDiffer ==
    ASSUME NEW data \in Seq(Datum)
    PROVE  /\ FirstsOf(data) \in Seq(Datum)
           /\ \A j, m \in DOMAIN FirstsOf(data) :
                FirstsOf(data)[j].item = FirstsOf(data)[m].item => j = m
           /\ \A j \in DOMAIN FirstsOf(data) : \E k \in DOMAIN data : FirstsOf(data)[j] = data[k]
<1> DEFINE K == {j \in DOMAIN data : \A m \in 1 .. j - 1 : data[m].item # data[j].item}
           new == FirstsOf(data)
           c == Cardinality(K)
<1>1. Len(data) \in Nat /\ DOMAIN data = 1 .. Len(data) /\ K \in SUBSET DOMAIN data /\ K \in SUBSET (0 .. Len(data))
    OBVIOUS
<1>2. new = ElementsAt(data, K)
    BY DEF FirstsOf
<1>3. new \in Seq(Datum)
    BY <1>1, <1>2, ElementsAtIn
<1>4. DOMAIN new = 1 .. c /\ \A m \in 1 .. c : new[m] = data[Nth(K, m)]
    BY <1>2 DEF ElementsAt
<1>5. \A m \in 1 .. c : Nth(K, m) \in K
    BY <1>1, NthIsIn
<1>6. \A a, b \in K : data[a].item = data[b].item => a = b
    BY <1>1
<1> HIDE DEF K, new
<1>7. ASSUME NEW j \in 1 .. c, NEW m \in 1 .. c, new[j].item = new[m].item PROVE j = m
    <2>1. Nth(K, j) = Nth(K, m)
        BY <1>4, <1>5, <1>6, <1>7
    <2> QED
        BY <1>1, <2>1, NthDiffer
<1>8. \A m \in 1 .. c : Nth(K, m) \in DOMAIN data
    BY <1>1, <1>5
<1> HIDE DEF c
<1> QED
    BY <1>3, <1>4, <1>7, <1>8 DEF new

\* As many items as there are places.
LEMMA ItemsCount ==
    ASSUME NEW new \in Seq(Datum), \A j, m \in DOMAIN new : new[j].item = new[m].item => j = m
    PROVE  /\ IsFiniteSet({new[j].item : j \in DOMAIN new})
           /\ Cardinality({new[j].item : j \in DOMAIN new}) = Len(new)
<1> DEFINE T == {new[j].item : j \in DOMAIN new}
           f == [j \in 1 .. Len(new) |-> new[j].item]
<1>1. Len(new) \in Nat /\ DOMAIN new = 1 .. Len(new)
    OBVIOUS
<1>2. f \in [1 .. Len(new) -> T]
    BY <1>1
<1>3. f \in Bijection(1 .. Len(new), T)
    <2>1. \A j, m \in 1 .. Len(new) : f[j] = f[m] => j = m
        BY <1>1
    <2>2. \A t \in T : \E j \in 1 .. Len(new) : f[j] = t
        BY <1>1
    <2> DEFINE P == 1 .. Len(new)
    <2> HIDE DEF f, T, P
    <2>3. f \in [P -> T] /\ IsInjective(f)
        BY <1>2, <2>1, Zenon DEF IsInjective, P
    <2>4. f \in Injection(P, T)
        BY <2>3, Zenon DEF Injection
    <2>5. f \in Surjection(P, T)
        BY <2>2, <2>3, Zenon DEF Surjection, P
    <2> QED
        BY <2>4, <2>5, Zenon DEF Bijection, P
<1>4. ExistsBijection(1 .. Len(new), T)
    BY <1>3 DEF ExistsBijection
<1>5. IsFiniteSet(1 .. Len(new)) /\ Cardinality(1 .. Len(new)) = Len(new)
    <2> DEFINE l == Len(new)
    <2>1. l \in Nat
        BY <1>1
    <2> HIDE DEF l
    <2>2. 1 \in Int /\ l \in Int
        BY <2>1
    <2>3. IsFiniteSet(1 .. l) /\ Cardinality(1 .. l) = IF 1 > l THEN 0 ELSE l - 1 + 1
        BY <2>2, FS_Interval, Zenon
    <2>4. Cardinality(1 .. l) = l
        BY <2>1, <2>3
    <2> QED
        BY <2>3, <2>4, Zenon DEF l
<1> HIDE DEF T
<1>6. IsFiniteSet(T) /\ Cardinality(T) = Len(new)
    BY <1>4, <1>5, FS_Bijection
<1> QED
    BY <1>6 DEF T

LEMMA RecordIsGood == ASSUME NEW key PROVE GoodDb(SenderDBRecord(key)) /\ ~SenderDBRecord(key).stripped
<1> DEFINE d == SenderDBRecord(key)
<1>1. /\ DOMAIN d = DbFields /\ d.hashed_items = {} /\ d.item_count = 0 /\ d.bundles = EmptyDB
      /\ d.stripped = FALSE /\ d.garbled = FALSE /\ d.content = [i \in Items |-> Absent]
    BY DEF SenderDBRecord, DbFields
<1> HIDE DEF d
<1>2. Present(d.content) = {}
    BY <1>1 DEF Present
<1>3. Counted(d)
    BY <1>1, <1>2, FS_EmptySet DEF Counted
<1>4. \A idx \in BundleIdx : GoodSet(d.bundles[idx], SavedEntry, TRUE, ~d.garbled)
    <2> SUFFICES ASSUME NEW idx \in BundleIdx
                 PROVE  GoodSet(d.bundles[idx], SavedEntry, TRUE, ~d.garbled)
        OBVIOUS
    <2>1. d.bundles[idx] = <<>>
        BY <1>1 DEF EmptyDB
    <2>2. GoodSet(<<>>, SavedEntry, TRUE, ~d.garbled)
        BY EmptySetIsGood, Zenon
    <2> QED
        BY <2>1, <2>2, Zenon
<1> QED
    BY <1>1, <1>3, <1>4 DEF GoodDb, d

LEMMA NotStale ==
    ASSUME NEW d, \A idx \in BundleIdx : \A j \in DOMAIN d.bundles[idx] : ~d.bundles[idx][j].cache_invalid
    PROVE  ~Stale(d)
<1> SUFFICES ASSUME NEW b \in Bundles(d) PROVE ~b.cache_invalid
    BY DEF Stale
<1>1. PICK idx \in BundleIdx : b \in ToSet(d.bundles[idx])
    BY DEF Bundles
<1>2. PICK j \in DOMAIN d.bundles[idx] : b = d.bundles[idx][j]
    BY <1>1 DEF ToSet
<1> QED
    BY <1>1, <1>2

LEMMA WithItemsIsGood ==
    ASSUME NEW d, GoodDb(d), ~d.stripped, NEW data \in Seq(Datum),
           \A j \in DOMAIN data : data[j].item \notin d.hashed_items
    PROVE  /\ GoodDb(WithItems(d, data)) /\ ~Stale(WithItems(d, data))
           /\ WithItems(d, data).stripped = d.stripped
<1> DEFINE new == FirstsOf(data)
           T == {new[j].item : j \in DOMAIN new}
           runs == RunTasks(d.bundles, "insert", new)
           left == [idx \in BundleIdx |-> runs[idx].set]
           w == WithItems(d, data)
           place(i) == CHOOSE j \in DOMAIN new : new[j].item = i
<1>1. /\ new \in Seq(Datum)
      /\ \A j, m \in DOMAIN new : new[j].item = new[m].item => j = m
      /\ \A j \in DOMAIN new : \E k \in DOMAIN data : new[j] = data[k]
    BY FirstsDiffer
<1>2. DOMAIN d = DbFields /\ Counted(d)
    BY DEF GoodDb
<1>3. /\ DOMAIN w = DbFields /\ w.stripped = d.stripped /\ w.garbled = d.garbled
      /\ w.hashed_items = d.hashed_items \cup T /\ w.item_count = d.item_count + Len(new)
      /\ w.bundles = GenerateCaches(left)
      /\ w.content = [i \in Items |-> IF \E j \in DOMAIN new : new[j].item = i
                                      THEN new[place(i)].label ELSE d.content[i]]
    BY <1>2 DEF WithItems, DbFields
<1>4. \A j \in DOMAIN new : new[j].item \in Items /\ new[j].label # Absent
    <2>1. \A j \in DOMAIN new : new[j] \in Datum
        BY <1>1
    <2> HIDE DEF new
    <2> QED
        BY <2>1, SavedDBAssumption DEF Datum
<1>5. T \cap d.hashed_items = {} /\ d.hashed_items = Present(d.content)
    BY <1>1, <1>2 DEF Counted
<1>6. IsFiniteSet(T) /\ Cardinality(T) = Len(new)
    <2> HIDE DEF new
    <2> QED
        BY <1>1, ItemsCount
<1> HIDE DEF w
<1>7. Present(w.content) = Present(d.content) \cup T
    <2>1. ASSUME NEW i \in Items, i \in T PROVE w.content[i] # Absent
        <3>1. place(i) \in DOMAIN new /\ \E j \in DOMAIN new : new[j].item = i
            BY <2>1
        <3>2. w.content[i] = new[place(i)].label
            BY <1>3, <3>1
        <3> HIDE DEF place, new
        <3> QED
            BY <1>4, <3>1, <3>2
    <2>2. ASSUME NEW i \in Items, i \notin T PROVE w.content[i] = d.content[i]
        BY <1>3, <2>2
    <2>3. T \subseteq Items
        BY <1>4
    <2> HIDE DEF T
    <2> QED
        BY <2>1, <2>2, <2>3 DEF Present
<1>8. /\ IsFiniteSet(Present(w.content))
      /\ Cardinality(Present(w.content)) = d.item_count + Len(new)
    <2> DEFINE P == Present(d.content)
    <2>1. IsFiniteSet(P) /\ d.item_count = Cardinality(P) /\ P \cap T = {}
        BY <1>2, <1>5 DEF Counted
    <2> HIDE DEF P, T, new
    <2>2. IsFiniteSet(P \cup T) /\ Cardinality(P \cup T) = Cardinality(P) + Cardinality(T) - Cardinality({})
        BY <1>6, <2>1, FS_Union
    <2>3. Cardinality({}) = 0 /\ Cardinality(P) \in Nat /\ Cardinality(T) \in Nat
        BY <1>6, <2>1, FS_EmptySet, FS_CardinalityType
    <2> QED
        BY <1>6, <1>7, <2>1, <2>2, <2>3 DEF P
<1>9. Counted(w)
    BY <1>2, <1>3, <1>5, <1>7, <1>8 DEF Counted
<1>10. \A idx \in BundleIdx : GoodSet(left[idx], SavedEntry, TRUE, ~d.garbled)
    <2> SUFFICES ASSUME NEW idx \in BundleIdx PROVE GoodSet(left[idx], SavedEntry, TRUE, ~d.garbled)
        OBVIOUS
    <2>1. left[idx] = runs[idx].set
        OBVIOUS
    <2> HIDE DEF left
    <2>2. GoodSet(runs[idx].set, SavedEntry, TRUE, ~d.garbled)
        BY <1>1, RunTasksAreGood, Zenon
    <2> QED
        BY <2>1, <2>2, Zenon
<1> HIDE DEF left
<1>11. \A idx \in BundleIdx :
         /\ GoodSet(w.bundles[idx], SavedEntry, TRUE, ~w.garbled)
         /\ \A j \in DOMAIN w.bundles[idx] : ~w.bundles[idx][j].cache_invalid
    BY <1>3, <1>10, CachesAreMade, Zenon
<1>12. GoodDb(w)
    BY <1>3, <1>9, <1>11 DEF GoodDb
<1>13. ~Stale(w)
    <2>1. \A idx \in BundleIdx : \A j \in DOMAIN w.bundles[idx] : ~w.bundles[idx][j].cache_invalid
        BY <1>11, Zenon
    <2> HIDE DEF w
    <2> QED
        BY <2>1, NotStale, Zenon
<1> QED
    BY <1>3, <1>12, <1>13 DEF w

LEMMA StrippedIsGood ==
    ASSUME NEW d, GoodDb(d)
    PROVE  GoodDb(Stripped(d)) /\ ~Stale(Stripped(d)) /\ Stripped(d).stripped
<1> DEFINE w == Stripped(d)
<1>1. DOMAIN d = DbFields /\ Counted(d)
    BY DEF GoodDb
<1>2. /\ DOMAIN w = DbFields /\ w.stripped = TRUE /\ w.garbled = d.garbled
      /\ w.item_count = d.item_count /\ w.content = d.content
      /\ w.bundles = [idx \in BundleIdx |->
                        [j \in DOMAIN d.bundles[idx] |-> StripBundle(d.bundles[idx][j])]]
    BY <1>1 DEF Stripped, DbFields
<1> HIDE DEF w
<1>3. Counted(w)
    BY <1>1, <1>2 DEF Counted
<1>4. ASSUME NEW idx \in BundleIdx
      PROVE  /\ GoodSet(w.bundles[idx], SavedEntry, TRUE, ~w.garbled)
             /\ \A j \in DOMAIN w.bundles[idx] : ~w.bundles[idx][j].cache_invalid
    <2> DEFINE set == d.bundles[idx]
               new == w.bundles[idx]
    <2>1. GoodSet(set, SavedEntry, TRUE, ~w.garbled)
        BY <1>2 DEF GoodDb
    <2>2. /\ DOMAIN new = DOMAIN set /\ \A j \in DOMAIN set : new[j] = StripBundle(set[j])
          /\ new = [j \in DOMAIN set |-> new[j]]
        BY <1>2
    <2> HIDE DEF set, new
    <2>3. ASSUME NEW j \in DOMAIN set PROVE GoodBundle(new[j], SavedEntry, TRUE, ~w.garbled)
        <3>1. GoodBundle(set[j], SavedEntry, TRUE, ~w.garbled)
            BY <2>1, Zenon DEF GoodSet
        <3>2. GoodBundle(StripBundle(set[j]), SavedEntry, TRUE, ~w.garbled)
            BY <3>1, StripIsGood, Zenon
        <3> QED
            BY <2>2, <3>2
    <2>4. GoodSet(new, SavedEntry, TRUE, ~w.garbled)
        BY <2>1, <2>2, <2>3, MappedSet, Zenon
    <2>5. \A j \in DOMAIN new : ~new[j].cache_invalid
        <3>1. \A b : StripBundle(b).cache_invalid = RegenCache(b).cache_invalid
            BY DEF StripBundle
        <3> QED
            BY <2>2, <3>1, RegenIsFresh
    <2> QED
        BY <2>4, <2>5, Zenon DEF new
<1>5. GoodDb(w)
    BY <1>2, <1>3, <1>4 DEF GoodDb
<1>6. ~Stale(w)
    <2>1. \A idx \in BundleIdx : \A j \in DOMAIN w.bundles[idx] : ~w.bundles[idx][j].cache_invalid
        BY <1>4, Zenon
    <2> HIDE DEF w
    <2> QED
        BY <2>1, NotStale, Zenon
<1> QED
    BY <1>2, <1>5, <1>6 DEF w

LEMMA RemovalIsGood ==
    ASSUME GoodDb(db), ~db.stripped, NEW i \in db.hashed_items, NEW items \in Seq(Items), Removal(i, items)
    PROVE  GoodDb(db')
<1> DEFINE data == [j \in DOMAIN items |-> [item |-> items[j], label |-> NoLabel]]
           runs == RunTasks(db.bundles, "remove", data)
           threw == {idx \in BundleIdx : runs[idx].threw}
<1>1. data \in Seq(Datum)
    <2>1. Len(items) \in Nat /\ DOMAIN items = 1 .. Len(items) /\ \A j \in DOMAIN items : items[j] \in Items
        OBVIOUS
    <2>2. data \in [1 .. Len(items) -> Datum]
        BY <2>1 DEF Datum
    <2> HIDE DEF data
    <2> QED
        BY <2>1, <2>2, TupleIsSeq
<1>2. DOMAIN db = DbFields /\ Counted(db)
    BY DEF GoodDb
<1>3. PICK left : /\ \A idx \in BundleIdx : left[idx] = db.bundles[idx] \/ left[idx] = runs[idx].set
                  /\ db' = [db EXCEPT !.hashed_items = db.hashed_items \ {i}, !.item_count = db.item_count - 1,
                                      !.bundles = IF threw = {} THEN GenerateCaches(left) ELSE left,
                                      !.content = [db.content EXCEPT ![i] = Absent],
                                      !.doubt = db'.doubt]
    <2>1. PICK lost \in SUBSET BundleIdx :
            db' = [db EXCEPT !.hashed_items = db.hashed_items \ {i}, !.item_count = db.item_count - 1,
                      !.bundles = IF threw = {}
                                  THEN GenerateCaches([idx \in BundleIdx |->
                                         IF idx \in lost THEN db.bundles[idx] ELSE runs[idx].set])
                                  ELSE [idx \in BundleIdx |->
                                         IF idx \in lost THEN db.bundles[idx] ELSE runs[idx].set],
                      !.content = [db.content EXCEPT ![i] = Absent],
                      !.doubt = DoubtAfter(db, IF lost = {} THEN {} ELSE {i})]
        BY DEF Removal
    <2> DEFINE left == [idx \in BundleIdx |-> IF idx \in lost THEN db.bundles[idx] ELSE runs[idx].set]
               doubt == DoubtAfter(db, IF lost = {} THEN {} ELSE {i})
    <2>2. \A idx \in BundleIdx : left[idx] = db.bundles[idx] \/ left[idx] = runs[idx].set
        OBVIOUS
    <2> HIDE DEF left, doubt, runs, threw
    <2>3. db' = [db EXCEPT !.hashed_items = db.hashed_items \ {i}, !.item_count = db.item_count - 1,
                           !.bundles = IF threw = {} THEN GenerateCaches(left) ELSE left,
                           !.content = [db.content EXCEPT ![i] = Absent],
                           !.doubt = doubt]
        BY <2>1, Zenon DEF left, doubt
    <2>4. db'.doubt = doubt
        BY <1>2, <2>3 DEF DbFields
    <2> QED
        BY <2>2, <2>3, <2>4
<1>4. /\ DOMAIN db' = DbFields /\ db'.stripped = db.stripped /\ db'.garbled = db.garbled
      /\ db'.hashed_items = db.hashed_items \ {i} /\ db'.item_count = db.item_count - 1
      /\ db'.bundles = (IF threw = {} THEN GenerateCaches(left) ELSE left)
      /\ db'.content = [db.content EXCEPT ![i] = Absent]
    <2> HIDE DEF runs, threw
    <2> QED
        BY <1>2, <1>3 DEF DbFields
<1>5. i \in Present(db.content) /\ i \in Items
    BY <1>2 DEF Counted, Present
<1>6. Present(db'.content) = Present(db.content) \ {i}
    BY <1>2, <1>4, <1>5 DEF Present, Counted
<1>7. /\ IsFiniteSet(Present(db'.content))
      /\ Cardinality(Present(db'.content)) = Cardinality(Present(db.content)) - 1
    <2> DEFINE P == Present(db.content)
    <2>1. IsFiniteSet(P) /\ i \in P
        BY <1>2, <1>5 DEF Counted
    <2> HIDE DEF P
    <2>2. IsFiniteSet(P \ {i}) /\ Cardinality(P \ {i}) = Cardinality(P) - 1
        BY <2>1, FS_RemoveElement
    <2> QED
        BY <1>6, <2>2 DEF P
<1>8. Counted(db')
    BY <1>2, <1>4, <1>6, <1>7 DEF Counted
<1>9. \A idx \in BundleIdx : GoodSet(left[idx], SavedEntry, TRUE, ~db.garbled)
    <2> SUFFICES ASSUME NEW idx \in BundleIdx PROVE GoodSet(left[idx], SavedEntry, TRUE, ~db.garbled)
        OBVIOUS
    <2>1. GoodSet(db.bundles[idx], SavedEntry, TRUE, ~db.garbled)
        BY DEF GoodDb
    <2> HIDE DEF data
    <2>2. GoodSet(runs[idx].set, SavedEntry, TRUE, ~db.garbled)
        BY <1>1, RunTasksAreGood, Zenon
    <2> HIDE DEF runs
    <2>3. left[idx] = db.bundles[idx] \/ left[idx] = runs[idx].set
        BY <1>3
    <2> QED
        BY <2>1, <2>2, <2>3, Zenon
<1>10. \A idx \in BundleIdx : GoodSet(db'.bundles[idx], SavedEntry, TRUE, ~db'.garbled)
    <2> HIDE DEF runs, threw
    <2>1. \A idx \in BundleIdx : GoodSet(GenerateCaches(left)[idx], SavedEntry, TRUE, ~db.garbled)
        BY <1>9, CachesAreMade, Zenon
    <2>2. db'.bundles = GenerateCaches(left) \/ db'.bundles = left
        BY <1>4
    <2> QED
        BY <1>4, <1>9, <2>1, <2>2, Zenon
<1> QED
    BY <1>4, <1>8, <1>10 DEF GoodDb


-----------------------------------------------------------------------------
(***************************************************************************)
(* The inductive invariant: what is in memory is good, and so is what a    *)
(* file holds, however far the save that writes it has come.               *)
(***************************************************************************)
FilesInv == DOMAIN files = Paths /\ \A p \in Paths : GoodFile(files[p])

CmdInv ==
    /\ phase \in {"down", "load", "csv", "made", "ready", "save", "serve"}
    /\ phase # "down" => /\ cmd.mode \in {"sender", "program"}
                         /\ cmd.out_file \in Paths \cup {NoPath}
                         /\ cmd.mode = "program" => cmd.out_file \in Paths
    /\ phase \in {"load", "csv"} => cmd.db_file \in Paths
    /\ phase \in {"csv", "made", "serve"} => cmd.mode = "sender"
    /\ phase = "ready" => cmd.mode = "program"
    /\ phase = "save" => cmd.out_file \in Paths

DbInv ==
    /\ phase \in {"down", "load", "csv"} => db = NoDB
    /\ phase \in {"made", "ready", "save", "serve"} => GoodDb(db)
    /\ db # NoDB /\ cmd.mode = "sender" => ~Stale(db)

SaveInv ==
    phase = "save" =>
        /\ files[cmd.out_file] = SdbFile(files[cmd.out_file].parts, "no")
        /\ IsSeq(todo) /\ WholeDb(files[cmd.out_file].parts \o todo)

SavedInv == FilesInv /\ CmdInv /\ DbInv /\ SaveInv

\* The fields of a file.
LEMMA SdbFields ==
    ASSUME NEW q, NEW cut
    PROVE  SdbFile(q, cut).kind = "sdb" /\ SdbFile(q, cut).parts = q /\ SdbFile(q, cut).cut = cut
BY DEF SdbFile

LEMMA SdbIsGood ==
    ASSUME NEW f, GoodFile(f), f.kind = "sdb"
    PROVE  f = SdbFile(f.parts, f.cut) /\ GoodParts(f.parts)
<1>1. f # NoFile /\ \A rows : f # CsvFile(rows)
    BY DEF NoFile, CsvFile
<1> QED
    BY <1>1, Zenon DEF GoodFile

LEMMA GoodSdb == ASSUME NEW q, GoodParts(q), NEW cut PROVE GoodFile(SdbFile(q, cut))
BY SdbFields, Zenon DEF GoodFile

LEMMA GoodIsDb == ASSUME NEW d, GoodDb(d) PROVE d # NoDB
BY DEF GoodDb, DbFields, NoDB

LEMMA EmptyIsUnit ==
    ASSUME NEW s, IsSeq(s)
    PROVE  IsSeq(<<>>) /\ <<>> \o s = s /\ s \o <<>> = s
<1> DEFINE S == {s[i] : i \in DOMAIN s}
<1>1. s \in Seq(S)
    BY DEF IsSeq
<1> HIDE DEF S
<1> QED
    BY <1>1 DEF IsSeq

\* One more part of what a save has still to write.
LEMMA OnePartMore ==
    ASSUME NEW q, GoodParts(q), NEW t, IsSeq(t), t # <<>>, WholeDb(q \o t)
    PROVE  /\ GoodParts(Append(q, Head(t))) /\ IsSeq(Tail(t))
           /\ WholeDb(Append(q, Head(t)) \o Tail(t))
<1>1. /\ IsSeq(Append(q, Head(t))) /\ IsSeq(Tail(t))
      /\ Append(q, Head(t)) \o Tail(t) = q \o t
    BY MoveHead, Zenon DEF GoodParts
<1>2. WholeDb(Append(q, Head(t)) \o Tail(t))
    BY <1>1, Zenon
<1>3. GoodParts(Append(q, Head(t)) \o Tail(t))
    BY <1>2, Zenon DEF WholeDb
<1> QED
    BY <1>1, <1>2, <1>3, PrefixIsGood, Zenon

LEMMA InitIsGood == Init => SavedInv
<1> SUFFICES ASSUME Init PROVE SavedInv
    OBVIOUS
<1>1. PICK rows \in CsvRows, p \in Paths :
         files = [q \in Paths |-> IF q = p THEN CsvFile(rows) ELSE NoFile]
    BY DEF Init
<1>2. FilesInv
    BY <1>1 DEF FilesInv, GoodFile
<1>3. CmdInv /\ DbInv /\ SaveInv
    BY DEF Init, CmdInv, DbInv, SaveInv
<1> QED
    BY <1>2, <1>3 DEF SavedInv

\* The process ends: only the files matter.
LEMMA DownIsGood == ASSUME FilesInv', Down PROVE SavedInv'
BY DEF SavedInv, Down, CmdInv, DbInv, SaveInv

LEMMA StartSenderIsGood == ASSUME SavedInv, StartSender PROVE SavedInv'
<1>1. FilesInv'
    BY DEF SavedInv, FilesInv, StartSender
<1>2. PICK p \in Paths, out \in Paths \cup {NoPath}, params \in BOOLEAN :
         cmd' = [mode |-> "sender", db_file |-> p, out_file |-> out, params |-> params, strict |-> TRUE]
    BY DEF StartSender
<1>3. phase' = "load" /\ db' = NoDB
    BY DEF StartSender, SavedInv, DbInv
<1> QED
    BY <1>1, <1>2, <1>3 DEF SavedInv, CmdInv, DbInv, SaveInv

LEMMA StartProgramIsGood == ASSUME SavedInv, StartProgram PROVE SavedInv'
<1>1. FilesInv'
    BY DEF SavedInv, FilesInv, StartProgram
<1>2. PICK p \in Paths \cup {NoPath}, out \in Paths, strict \in BOOLEAN :
         /\ cmd' = [mode |-> "program", db_file |-> p, out_file |-> out, params |-> FALSE, strict |-> strict]
         /\ IF p = NoPath
            THEN phase' = "ready" /\ db' = SenderDBRecord(keys_made + 1)
            ELSE phase' = "load" /\ UNCHANGED db
    BY DEF StartProgram
<1>3. db = NoDB
    BY DEF StartProgram, SavedInv, DbInv
<1>4. CASE p = NoPath
    <2>1. GoodDb(db') /\ phase' = "ready"
        BY <1>2, <1>4, RecordIsGood
    <2> QED
        BY <1>1, <1>2, <2>1 DEF SavedInv, CmdInv, DbInv, SaveInv
<1>5. CASE p # NoPath
    BY <1>1, <1>2, <1>3, <1>5 DEF SavedInv, CmdInv, DbInv, SaveInv
<1> QED
    BY <1>4, <1>5

LEMMA LoadFailsIsGood == ASSUME SavedInv, LoadFails PROVE SavedInv'
<1>1. FilesInv' /\ cmd' = cmd
    BY DEF SavedInv, FilesInv, LoadFails, Stay
<1>2. CASE cmd.mode = "sender"
    <2>1. phase' = "csv" /\ db' = db /\ phase = "load"
        BY <1>2 DEF LoadFails
    <2> QED
        BY <1>1, <1>2, <2>1 DEF SavedInv, CmdInv, DbInv, SaveInv
<1>3. CASE cmd.mode # "sender"
    BY <1>1, <1>3, DownIsGood, Zenon DEF LoadFails
<1> QED
    BY <1>2, <1>3

LEMMA LoadSucceedsIsGood == ASSUME SavedInv, LoadSucceeds PROVE SavedInv'
<1>1. FilesInv' /\ cmd' = cmd
    BY DEF SavedInv, FilesInv, LoadSucceeds, Stay
<1>2. phase = "load" /\ LoadAccepts(File, cmd.strict) /\ GoodFile(File)
    BY DEF LoadSucceeds, SavedInv, CmdInv, FilesInv, File
<1>3. GoodParts(File.parts)
    BY <1>2, SdbIsGood DEF LoadAccepts
<1>4. PICK bundles \in LoadedBundles(File) : db' = Loaded(File, bundles)
    BY DEF LoadSucceeds
<1>5. GoodDb(Loaded(File, bundles)) /\ ~Stale(Loaded(File, bundles))
    BY <1>2, <1>3, LoadedIsGood, Zenon
<1>6. GoodDb(db') /\ ~Stale(db')
    BY <1>4, <1>5, Zenon
<1>7. phase' = IF cmd.mode = "sender" THEN "made" ELSE "ready"
    BY DEF LoadSucceeds
<1>8. CmdInv' /\ SaveInv'
    BY <1>1, <1>2, <1>7 DEF SavedInv, CmdInv, SaveInv
<1>9. DbInv'
    <2>1. phase' \in {"made", "ready"}
        BY <1>7
    <2> QED
        BY <1>6, <2>1 DEF DbInv
<1> QED
    BY <1>1, <1>8, <1>9 DEF SavedInv

LEMMA LoadCsvIsGood == ASSUME SavedInv, LoadCsv PROVE SavedInv'
<1>1. FilesInv' /\ cmd' = cmd /\ phase = "csv" /\ GoodFile(File)
    BY DEF SavedInv, FilesInv, CmdInv, LoadCsv, File
<1>2. CASE Down
    BY <1>1, <1>2, DownIsGood
<1>3. CASE /\ db' = CreateSenderDB(RowsOf(File)) /\ phase' = "made"
    <2> DEFINE rows == RowsOf(File)
               d == SenderDBRecord(keys_made + 1)
    <2>1. rows \in Seq(Datum)
        <3>1. CASE File.kind = "csv"
            <4>1. File # NoFile /\ \A q, cut : File # SdbFile(q, cut)
                BY <3>1 DEF NoFile, SdbFile
            <4>2. PICK r \in CsvRows : File = CsvFile(r)
                BY <1>1, <4>1, Zenon DEF GoodFile
            <4>3. rows = r
                BY <4>2 DEF RowsOf, CsvFile
            <4> QED
                BY <4>3, SavedDBAssumption
        <3>2. CASE File.kind # "csv"
            BY <3>2 DEF RowsOf
        <3> QED
            BY <3>1, <3>2
    <2>2. GoodDb(d) /\ ~d.stripped
        BY RecordIsGood
    <2>3. d.hashed_items = {}
        BY DEF SenderDBRecord
    <2>4. GoodDb(WithItems(d, rows))
        <3>1. \A j \in DOMAIN rows : rows[j].item \notin d.hashed_items
            BY <2>3
        <3> HIDE DEF rows, d
        <3> QED
            BY <2>1, <2>2, <3>1, WithItemsIsGood
    <2>5. GoodDb(Stripped(WithItems(d, rows))) /\ ~Stale(Stripped(WithItems(d, rows)))
        BY <2>4, StrippedIsGood, Zenon
    <2>6. GoodDb(db') /\ ~Stale(db')
        BY <1>3, <2>5, Zenon DEF CreateSenderDB
    <2>7. CmdInv' /\ SaveInv'
        BY <1>1, <1>3 DEF SavedInv, CmdInv, SaveInv
    <2>8. DbInv'
        BY <1>3, <2>6 DEF DbInv
    <2> QED
        BY <1>1, <2>7, <2>8 DEF SavedInv
<1> QED
    BY <1>2, <1>3 DEF LoadCsv

LEMMA SaveBeginIsGood == ASSUME SavedInv, SaveBegin PROVE SavedInv'
<1> DEFINE out == cmd.out_file
           rest == IF cmd.mode = "sender" THEN <<KeyPart(oprf_key)>> ELSE <<>>
<1>1. /\ phase \in {"made", "ready"} /\ phase' = "save" /\ cmd' = cmd /\ db' = db
      /\ files' = [files EXCEPT ![out] = SdbFile(<<>>, "no")]
      /\ todo' = SavedParts(db) \o rest
    BY DEF SaveBegin
<1>2. out \in Paths
    BY DEF SaveBegin, SavedInv, CmdInv
<1>3. GoodDb(db) /\ (cmd.mode = "sender" => ~Stale(db))
    <2>1. GoodDb(db)
        BY <1>1 DEF SavedInv, DbInv
    <2> QED
        BY <2>1, GoodIsDb DEF SavedInv, DbInv
<1>4. IsSeq(rest)
    <2>1. IsSeq(<<>>)
        BY DEF IsSeq
    <2>2. IsSeq(<<KeyPart(oprf_key)>>)
        <3> DEFINE k == KeyPart(oprf_key)
        <3> HIDE DEF k
        <3>1. <<k>> \in Seq({<<k>>[i] : i \in DOMAIN <<k>>})
            OBVIOUS
        <3> QED
            BY <3>1, Zenon DEF IsSeq, k
    <2> QED
        BY <2>1, <2>2, Zenon
<1> HIDE DEF rest, out
<1>5. WholeDb(todo')
    BY <1>1, <1>3, <1>4, SavedIsWhole, Zenon
<1>6. IsSeq(todo')
    BY <1>5, Zenon DEF WholeDb, GoodParts
<1>7. <<>> \o todo' = todo'
    BY <1>6, EmptyIsUnit, Zenon
<1>8. FilesInv'
    <2>1. GoodParts(<<>>)
        BY DEF GoodParts, IsSeq
    <2>2. GoodFile(SdbFile(<<>>, "no"))
        BY <2>1, GoodSdb, Zenon
    <2> QED
        BY <1>1, <2>2 DEF SavedInv, FilesInv
<1>9. files'[out] = SdbFile(<<>>, "no")
    BY <1>1, <1>2 DEF SavedInv, FilesInv
<1>10. SaveInv'
    <2>1. files'[out].parts = <<>>
        BY <1>9, SdbFields
    <2>2. WholeDb(files'[out].parts \o todo')
        BY <1>5, <1>7, <2>1, Zenon
    <2>3. files'[out] = SdbFile(files'[out].parts, "no")
        BY <1>9, <2>1, Zenon
    <2> QED
        BY <1>1, <1>6, <2>2, <2>3, Zenon DEF SaveInv, out
<1>11. CmdInv'
    BY <1>1, <1>2 DEF SavedInv, CmdInv, out
<1>12. DbInv'
    BY <1>1, <1>3 DEF DbInv
<1> QED
    BY <1>8, <1>10, <1>11, <1>12 DEF SavedInv

LEMMA SavePartIsGood == ASSUME SavedInv, SavePart PROVE SavedInv'
<1> DEFINE out == cmd.out_file
           f == files[out]
           q == f.parts
           more == Append(q, Head(todo))
<1>1. /\ phase = "save" /\ phase' = phase /\ cmd' = cmd /\ db' = db /\ todo # <<>>
      /\ files' = [files EXCEPT ![out].parts = more] /\ todo' = Tail(todo)
    BY DEF SavePart
<1>2. out \in Paths /\ DOMAIN files = Paths
    BY <1>1 DEF SavedInv, CmdInv, FilesInv
<1>3. f = SdbFile(q, "no") /\ IsSeq(todo) /\ WholeDb(q \o todo)
    BY <1>1 DEF SavedInv, SaveInv
<1>4. GoodParts(q)
    <2>1. f.kind = "sdb" /\ GoodFile(f)
        BY <1>2, <1>3, SdbFields DEF SavedInv, FilesInv
    <2> QED
        BY <2>1, SdbIsGood
<1> HIDE DEF q
<1>5. GoodParts(more) /\ IsSeq(Tail(todo)) /\ WholeDb(more \o Tail(todo))
    BY <1>1, <1>3, <1>4, OnePartMore, Zenon
<1> HIDE DEF more
<1>6. files' = [files EXCEPT ![out] = SdbFile(more, "no")]
    <2>1. [f EXCEPT !.parts = more] = SdbFile(more, "no")
        BY <1>3 DEF SdbFile
    <2> QED
        BY <1>1, <1>2, <2>1
<1> HIDE DEF f, out
<1>7. FilesInv'
    <2>1. GoodFile(SdbFile(more, "no"))
        BY <1>5, GoodSdb, Zenon
    <2> QED
        BY <1>6, <2>1 DEF SavedInv, FilesInv
<1>8. SaveInv'
    <2>1. files'[out] = SdbFile(more, "no")
        BY <1>2, <1>6
    <2>2. files'[out].parts = more
        BY <2>1, SdbFields
    <2>3. files'[out] = SdbFile(files'[out].parts, "no")
        BY <2>1, <2>2, Zenon
    <2>4. IsSeq(todo') /\ WholeDb(files'[out].parts \o todo')
        BY <1>1, <1>5, <2>2, Zenon
    <2> QED
        BY <1>1, <2>3, <2>4, Zenon DEF SaveInv, out
<1>9. CmdInv' /\ DbInv'
    BY <1>1, Zenon DEF SavedInv, CmdInv, DbInv
<1> QED
    BY <1>7, <1>8, <1>9 DEF SavedInv

LEMMA ServeIsGood == ASSUME SavedInv, Serve PROVE SavedInv'
<1>1. FilesInv' /\ cmd' = cmd
    BY DEF SavedInv, FilesInv, Serve, Stay
<1>2. CASE db.stripped
    <2>1. phase' = "serve" /\ db' = db /\ phase \in {"made", "save"} /\ cmd.mode = "sender"
        BY <1>2 DEF Serve, SavedInv, CmdInv
    <2>2. GoodDb(db)
        BY <2>1 DEF SavedInv, DbInv
    <2>3. ~Stale(db)
        BY <2>1, <2>2, GoodIsDb DEF SavedInv, DbInv
    <2>4. CmdInv' /\ SaveInv'
        BY <1>1, <2>1 DEF SavedInv, CmdInv, SaveInv
    <2>5. DbInv'
        BY <2>1, <2>2, <2>3 DEF DbInv
    <2> QED
        BY <1>1, <2>4, <2>5 DEF SavedInv
<1>3. CASE ~db.stripped
    BY <1>1, <1>3, DownIsGood, Zenon DEF Serve
<1> QED
    BY <1>2, <1>3

LEMMA CrashIsGood == ASSUME SavedInv, Crash PROVE SavedInv'
<1>1. CASE UNCHANGED files
    BY <1>1, DownIsGood DEF Crash, SavedInv, FilesInv
<1>2. CASE phase = "save" /\ todo # <<>> /\ files' # files
    <2> DEFINE out == cmd.out_file
               q == files[out].parts
               more == Append(q, Head(todo))
    <2>1. PICK cut \in {"early", "late"} : files' = [files EXCEPT ![out] = SdbFile(more, cut)]
        BY <1>2 DEF Crash
    <2>2. out \in Paths /\ DOMAIN files = Paths
        BY <1>2 DEF SavedInv, CmdInv, FilesInv
    <2>3. files[out] = SdbFile(q, "no") /\ IsSeq(todo) /\ WholeDb(q \o todo)
        BY <1>2 DEF SavedInv, SaveInv
    <2>4. GoodParts(q)
        <3>1. files[out].kind = "sdb" /\ GoodFile(files[out])
            BY <2>2, <2>3, SdbFields DEF SavedInv, FilesInv
        <3> QED
            BY <3>1, SdbIsGood
    <2> HIDE DEF q
    <2>5. GoodParts(more)
        BY <1>2, <2>3, <2>4, OnePartMore, Zenon
    <2> HIDE DEF more, out
    <2>6. GoodFile(SdbFile(more, cut))
        BY <2>5, GoodSdb, Zenon
    <2>7. FilesInv'
        BY <2>1, <2>6 DEF SavedInv, FilesInv
    <2> QED
        BY <2>7, DownIsGood DEF Crash
<1> QED
    BY <1>1, <1>2 DEF Crash

\* A program changes what it has created or loaded; the files stay.
LEMMA ChangeIsGood ==
    ASSUME SavedInv, Change, files' = files, phase' = phase, cmd' = cmd, GoodDb(db')
    PROVE  SavedInv'
<1>1. FilesInv' /\ phase = "ready"
    BY DEF SavedInv, FilesInv, Change
<1>2. cmd.mode = "program"
    BY <1>1 DEF SavedInv, CmdInv
<1>3. CmdInv' /\ SaveInv'
    BY <1>1, Zenon DEF SavedInv, CmdInv, SaveInv
<1>4. DbInv'
    BY <1>1, <1>2 DEF DbInv
<1> QED
    BY <1>1, <1>3, <1>4 DEF SavedInv

LEMMA ReadyIsGood == ASSUME SavedInv, Change PROVE GoodDb(db) /\ ~db.stripped
BY DEF SavedInv, DbInv, Change

LEMMA StripsGood == ASSUME SavedInv, Strip PROVE SavedInv'
<1>1. GoodDb(db')
    BY ReadyIsGood, StrippedIsGood, Zenon DEF Strip
<1> QED
    BY <1>1, ChangeIsGood DEF Strip

LEMMA InsertNewIsGood == ASSUME SavedInv, NEW data \in Batches, InsertNew(data) PROVE SavedInv'
<1>1. data \in Seq(Datum)
    BY SavedDBAssumption
<1>2. GoodDb(db) /\ ~db.stripped
    BY ReadyIsGood DEF InsertNew
<1>3. GoodDb(WithItems(db, data))
    BY <1>1, <1>2, WithItemsIsGood DEF InsertNew
<1>4. GoodDb(db')
    BY <1>3, Zenon DEF InsertNew
<1> QED
    BY <1>4, ChangeIsGood DEF InsertNew, Quietly

LEMMA RemovesGood ==
    ASSUME SavedInv, NEW i, NEW items \in Seq(Items), Removal(i, items) PROVE SavedInv'
<1>1. Change /\ i \in db.hashed_items /\ Quietly
    BY DEF Removal
<1>2. GoodDb(db) /\ ~db.stripped
    BY <1>1, ReadyIsGood
<1>3. GoodDb(db')
    BY <1>1, <1>2, RemovalIsGood
<1> QED
    BY <1>1, <1>3, ChangeIsGood DEF Quietly

LEMMA StepIsGood == SavedInv /\ [Next]_vars => SavedInv'
<1> SUFFICES ASSUME SavedInv, [Next]_vars PROVE SavedInv'
    OBVIOUS
<1>1. CASE StartSender   BY <1>1, StartSenderIsGood
<1>2. CASE StartProgram  BY <1>2, StartProgramIsGood
<1>3. CASE LoadFails     BY <1>3, LoadFailsIsGood
<1>4. CASE LoadSucceeds  BY <1>4, LoadSucceedsIsGood
<1>5. CASE LoadCsv       BY <1>5, LoadCsvIsGood
<1>6. CASE SaveBegin     BY <1>6, SaveBeginIsGood
<1>7. CASE SavePart      BY <1>7, SavePartIsGood
<1>8. CASE Serve         BY <1>8, ServeIsGood
<1>9. CASE ProgramEnds
    <2>1. FilesInv' /\ Down
        BY <1>9 DEF ProgramEnds, Stay, SavedInv, FilesInv
    <2> QED
        BY <2>1, DownIsGood
<1>10. CASE Crash        BY <1>10, CrashIsGood
<1>11. CASE Strip        BY <1>11, StripsGood
<1>12. ASSUME NEW data \in Batches, InsertNew(data) PROVE SavedInv'
    BY <1>12, InsertNewIsGood
<1>13. ASSUME NEW i \in Items, RemoveOne(i) PROVE SavedInv'
    <2>1. <<i>> \in Seq(Items)
        OBVIOUS
    <2> QED
        BY <1>13, <2>1, RemovesGood, Zenon DEF RemoveOne
<1>14. ASSUME NEW i \in Items, NEW j \in Items, RemoveTwo(i, j) PROVE SavedInv'
    <2>1. <<i, j>> \in Seq(Items)
        OBVIOUS
    <2> QED
        BY <1>14, <2>1, RemovesGood, Zenon DEF RemoveTwo
<1>15. CASE UNCHANGED vars
    BY <1>15, Zenon DEF vars, SavedInv, FilesInv, CmdInv, DbInv, SaveInv
<1> QED
    BY <1>1, <1>2, <1>3, <1>4, <1>5, <1>6, <1>7, <1>8, <1>9, <1>10, <1>11, <1>12, <1>13, <1>14, <1>15
    DEF Next

LEMMA AlwaysSaved == Spec => []SavedInv
BY InitIsGood, StepIsGood, PTL DEF Spec
-----------------------------------------------------------------------------
(***************************************************************************)
(* What the invariant says of the database in memory and of the files      *)
(***************************************************************************)
LEMMA InvMembers == SavedInv => MembersSurvive
<1> SUFFICES ASSUME SavedInv, db # NoDB PROVE MembersSurvive
    BY DEF MembersSurvive
<1>1. GoodDb(db)
    BY DEF SavedInv, CmdInv, DbInv
<1>2. Counted(db)
    BY <1>1 DEF GoodDb
<1>3. ASSUME NEW b \in Bundles(db), ~db.garbled, ~b.stripped, ~b.cache_invalid PROVE b.cache = b.bins
    <2>1. PICK idx \in BundleIdx : b \in ToSet(db.bundles[idx])
        BY DEF Bundles
    <2>2. PICK j \in DOMAIN db.bundles[idx] : b = db.bundles[idx][j]
        BY <2>1 DEF ToSet
    <2>3. GoodSet(db.bundles[idx], SavedEntry, TRUE, ~db.garbled)
        BY <1>1, Zenon DEF GoodDb
    <2>4. GoodBundle(b, SavedEntry, TRUE, ~db.garbled)
        BY <2>2, <2>3, Zenon DEF GoodSet
    <2> QED
        BY <1>3, <2>4, Zenon DEF GoodBundle
<1>4. ASSUME phase \in {"made", "serve"} PROVE ~Stale(db)
    BY <1>4 DEF SavedInv, CmdInv, DbInv
<1> QED
    BY <1>2, <1>3, <1>4 DEF MembersSurvive, Counted, Present

\* From a stream that reports errors a file loads if and only if the bundles
\* that its header announces are all there, whole.
LEMMA LoadsIf ==
    ASSUME MaxBinSize > 1, NEW f, f = SdbFile(f.parts, f.cut), GoodParts(f.parts)
    PROVE  LoadAccepts(f, TRUE) <=>
             /\ f.parts # <<>>
             /\ Len(f.parts) > f.parts[1].bin_bundle_count + (IF f.cut = "no" THEN 0 ELSE 1)
<1> DEFINE q == f.parts
           N == Len(q)
           c == q[1].bin_bundle_count
<1>1. IsSeq(q) /\ N \in Nat /\ DOMAIN q = 1 .. N
    BY IsSeqFacts DEF GoodParts
<1>2. f.kind = "sdb"
    BY DEF SdbFile
<1>3. \A n : Readable(f, n, TRUE) <=> n \in 1 .. N /\ (n = N => f.cut = "no")
    BY <1>1 DEF Readable
<1>4. CASE q = <<>>
    <2>1. 1 \notin 1 .. N
        BY <1>4
    <2>2. ~Readable(f, 1, TRUE)
        BY <1>3, <2>1, Zenon
    <2> QED
        BY <1>4, <2>2, Zenon DEF LoadAccepts
<1>5. CASE q # <<>>
    <2>1. Counted(q[1]) /\ c \in Nat
        BY <1>5, Zenon DEF GoodParts, GoodHeader
    <2>2. ~q[1].stripped => q[1].item_count = Cardinality(q[1].hashed_items)
        BY <2>1 DEF Counted
    <2>3. ASSUME NEW n \in 2 .. c + 1, Readable(f, n, TRUE) PROVE BundleAcceptable(ReadPart(f, n))
        <3>1. n \in DOMAIN q /\ ReadPart(f, n) = q[n]
            BY <1>1, <1>3, <2>3 DEF ReadPart
        <3>2. GoodPart(q[n], ~q[1].garbled)
            BY <1>5, <3>1, Zenon DEF GoodParts
        <3>3. BundleAcceptable(q[n])
            BY <3>2, Zenon DEF GoodPart
        <3> QED
            BY <3>1, <3>3, Zenon
    <2>4. LoadAccepts(f, TRUE) <=>
            Readable(f, 1, TRUE) /\ \A n \in 2 .. c + 1 : Readable(f, n, TRUE)
        BY <1>2, <2>2, <2>3, Zenon DEF LoadAccepts, BundleParts
    <2>5. LoadAccepts(f, TRUE) <=>
            /\ 1 \in 1 .. N /\ (1 = N => f.cut = "no")
            /\ \A n \in 2 .. c + 1 : n \in 1 .. N /\ (n = N => f.cut = "no")
        BY <1>3, <2>4, Zenon
    <2>6. N \in Nat /\ N > 0
        <3>1. N # 0
            BY <1>1, <1>5 DEF IsSeq
        <3> QED
            BY <1>1, <3>1
    <2> DEFINE last == IF f.cut = "no" THEN 0 ELSE 1
               reads == /\ 1 \in 1 .. N /\ (1 = N => f.cut = "no")
                        /\ \A n \in 2 .. c + 1 : n \in 1 .. N /\ (n = N => f.cut = "no")
    <2> HIDE DEF q, N, c
    <2>7. ASSUME reads PROVE N > c + last
        <3>1. CASE c = 0
            BY <2>6, <2>7, <3>1
        <3>2. CASE c # 0
            <4>1. c + 1 \in 2 .. c + 1
                BY <2>1, <3>2
            <4>2. c + 1 \in 1 .. N /\ (c + 1 = N => f.cut = "no")
                BY <2>7, <4>1
            <4> QED
                BY <2>1, <2>6, <4>2
        <3> QED
            BY <3>1, <3>2
    <2>8. ASSUME N > c + last PROVE reads
        BY <2>1, <2>6, <2>8
    <2>9. LoadAccepts(f, TRUE) <=> N > c + last
        <3> HIDE DEF last
        <3> QED
            BY <2>5, <2>7, <2>8, Zenon
    <2> QED
        BY <1>5, <2>9, Zenon DEF q, N, c, last
<1> QED
    BY <1>4, <1>5

LEMMA AllButLast ==
    ASSUME NEW S, NEW q \in Seq(S)
    PROVE  /\ q # <<>> <=> Len(q) > 0
           /\ Len(SubSeq(q, 1, Len(q) - 1)) = (IF Len(q) = 0 THEN 0 ELSE Len(q) - 1)
           /\ SubSeq(q, 1, Len(q) - 1) # <<>> <=> Len(q) > 1
           /\ Len(q) > 1 => SubSeq(q, 1, Len(q) - 1)[1] = q[1]
<1>1. Len(q) \in Nat /\ (q # <<>> <=> Len(q) > 0)
    OBVIOUS
<1>2. CASE Len(q) \in {0, 1}
    <2>1. SubSeq(q, 1, Len(q) - 1) = <<>>
        <3> DEFINE n == Len(q) - 1
        <3>0. Len(q) = 0 \/ Len(q) = 1
            BY <1>2
        <3>1. n \in Int /\ n < 1
            <4> HIDE DEF n
            <4>1. n = 0 - 1 \/ n = 0
                BY <3>0 DEF n
            <4> QED
                BY <4>1
        <3> HIDE DEF n
        <3>2. SubSeq(q, 1, n) = <<>>
            BY <3>1, SubSeqEmpty
        <3> QED
            BY <3>2 DEF n
    <2> QED
        BY <1>1, <1>2, <2>1
<1>3. CASE Len(q) > 1
    <2> DEFINE n == Len(q) - 1
    <2>1. n \in Nat /\ n \in 1 .. Len(q)
        BY <1>1, <1>3
    <2> HIDE DEF n
    <2>2. Len(SubSeq(q, 1, n)) = n /\ SubSeq(q, 1, n)[1] = q[1] /\ SubSeq(q, 1, n) \in Seq(S)
        BY <2>1, SubSeqProperties
    <2>3. SubSeq(q, 1, n) # <<>>
        BY <2>1, <2>2
    <2> QED
        BY <1>1, <1>3, <2>2, <2>3 DEF n
<1> QED
    BY <1>1, <1>2, <1>3

LEMMA CompleteIf ==
    ASSUME NEW f, f = SdbFile(f.parts, f.cut), GoodParts(f.parts)
    PROVE  (Complete(f) \/ Complete(WithoutLast(f))) <=>
             /\ f.parts # <<>>
             /\ Len(f.parts) > f.parts[1].bin_bundle_count + (IF f.cut = "no" THEN 0 ELSE 1)
<1> DEFINE q == f.parts
           N == Len(q)
           c == q[1].bin_bundle_count
           r == SubSeq(q, 1, N - 1)
           g == WithoutLast(f)
<1>1. IsSeq(q) /\ N \in Nat /\ DOMAIN q = 1 .. N
    BY IsSeqFacts DEF GoodParts
<1>2. /\ q # <<>> <=> N > 0
      /\ Len(r) = (IF N = 0 THEN 0 ELSE N - 1) /\ (r # <<>> <=> N > 1)
      /\ N > 1 => r[1] = q[1]
    <2> DEFINE S == {q[i] : i \in DOMAIN q}
    <2>1. q \in Seq(S)
        BY <1>1 DEF IsSeq
    <2> HIDE DEF S, q
    <2> QED
        BY <2>1, AllButLast
<1>3. g.kind = "sdb" /\ g.cut = "no" /\ g.parts = r
    BY DEF WithoutLast, SdbFile
<1>4. f.kind = "sdb"
    BY DEF SdbFile
<1>5. Complete(f) <=> f.cut = "no" /\ N > 0 /\ N > c
    BY <1>2, <1>4, Zenon DEF Complete
<1>6. Complete(g) <=> N > 1 /\ N - 1 > c
    <2>1. Complete(g) <=> r # <<>> /\ Len(r) > r[1].bin_bundle_count
        BY <1>3, Zenon DEF Complete
    <2> HIDE DEF r
    <2> QED
        BY <1>1, <1>2, <2>1
<1>7. N > 0 => c \in Nat
    BY <1>2, Zenon DEF GoodParts, GoodHeader
<1> HIDE DEF g, N, c, r
<1>8. (Complete(f) \/ Complete(g)) <=> N > 0 /\ N > c + (IF f.cut = "no" THEN 0 ELSE 1)
    BY <1>1, <1>5, <1>6, <1>7
<1> QED
    BY <1>2, <1>8 DEF g, N, c

LEMMA InvLoads == ASSUME MaxBinSize > 1 PROVE SavedInv => LoadsIffComplete
<1> SUFFICES ASSUME SavedInv, NEW p \in Paths, files[p].kind = "sdb"
             PROVE  LoadAccepts(files[p], TRUE) <=>
                      Complete(files[p]) \/ Complete(WithoutLast(files[p]))
    BY DEF LoadsIffComplete
<1> DEFINE f == files[p]
<1>1. f = SdbFile(f.parts, f.cut) /\ GoodParts(f.parts)
    BY SdbIsGood DEF SavedInv, FilesInv
<1> HIDE DEF f
<1>2. LoadAccepts(f, TRUE) <=>
        /\ f.parts # <<>>
        /\ Len(f.parts) > f.parts[1].bin_bundle_count + (IF f.cut = "no" THEN 0 ELSE 1)
    BY <1>1, LoadsIf, Zenon
<1>3. (Complete(f) \/ Complete(WithoutLast(f))) <=>
        /\ f.parts # <<>>
        /\ Len(f.parts) > f.parts[1].bin_bundle_count + (IF f.cut = "no" THEN 0 ELSE 1)
    BY <1>1, CompleteIf, Zenon
<1> QED
    BY <1>2, <1>3, Zenon DEF f

\* Whatever process loaded a database, from whichever files, and whatever calls
\* changed it since: its item count is the number of its items, its hashed
\* items are those, a valid cache of a bundle that was not stripped is made of
\* its bins (unless a lenient stream hid a cut), and no stale cache is served
\* (SenderDB::Load, sender_db.cpp:1240; remove_if, sender_db.cpp:880).
THEOREM MembersAlwaysSurvive == Spec => []MembersSurvive
BY AlwaysSaved, InvMembers, PTL

\* Whatever ran before, of all the files there are, a stream that reports errors
\* accepts those whose bundles are all there, and no other (SenderDB::Load,
\* BinBundle::load).  With MaxBinSize = 1 the one root that a bin takes makes
\* a polynomial that load() refuses.
THEOREM WholeFilesLoad == ASSUME MaxBinSize > 1 PROVE Spec => []LoadsIffComplete
<1>1. SavedInv => LoadsIffComplete
    BY InvLoads
<1> QED
    BY <1>1, AlwaysSaved, PTL

\* All parts are written: the file loads.
SavesLoad == phase = "save" /\ todo = <<>> => LoadAccepts(files[cmd.out_file], TRUE)

\* In every behaviour a save that has ended can be loaded again, whatever
\* processes, crashes and failed calls came before it (SenderDB::save).
THEOREM EndedSavesLoad == ASSUME MaxBinSize > 1 PROVE Spec => []SavesLoad
<1>1. SavedInv => SavesLoad
    <2> SUFFICES ASSUME SavedInv, phase = "save", todo = <<>>
                 PROVE  LoadAccepts(files[cmd.out_file], TRUE)
        BY DEF SavesLoad
    <2> DEFINE f == files[cmd.out_file]
    <2>1. f = SdbFile(f.parts, "no") /\ WholeDb(f.parts \o todo) /\ GoodFile(f)
        BY DEF SavedInv, SaveInv, CmdInv, FilesInv
    <2> HIDE DEF f
    <2>2. f.kind = "sdb" /\ f.cut = "no"
        BY <2>1, SdbFields
    <2>3. f = SdbFile(f.parts, f.cut) /\ GoodParts(f.parts)
        BY <2>1, <2>2, SdbIsGood
    <2>4. f.parts \o todo = f.parts
        BY <2>3, EmptyIsUnit, Zenon DEF GoodParts
    <2>5. WholeDb(f.parts)
        BY <2>1, <2>4, Zenon
    <2>6. f.parts # <<>> /\ Len(f.parts) > f.parts[1].bin_bundle_count
        BY <2>5, Zenon DEF WholeDb
    <2>7. f.parts[1].bin_bundle_count \in Nat
        BY <2>3, <2>6, Zenon DEF GoodParts, GoodHeader
    <2>8. Len(f.parts) > f.parts[1].bin_bundle_count + (IF f.cut = "no" THEN 0 ELSE 1)
        BY <2>2, <2>6, <2>7
    <2>9. LoadAccepts(f, TRUE)
        BY <2>3, <2>6, <2>8, LoadsIf, Zenon
    <2> QED
        BY <2>9 DEF f
<1> QED
    BY <1>1, AlwaysSaved, PTL

\* g[m] is what RunTask has made of the bundles after m works.
RunsBy(g, set, op, task) ==
    /\ RunTask(set, op, task) = g[Len(task)]
    /\ g[0] = Result(set, FALSE)
    /\ \A m \in 1 .. Len(task) :
          g[m] = IF g[m - 1].threw THEN g[m - 1] ELSE WorkItem(g[m - 1].set, op, task[m])

\* RunTask goes work by work, and stops at the first that throws.
LEMMA RunSteps ==
    ASSUME NEW set, NEW op, NEW task, Len(task) \in Nat
    PROVE  \E g : RunsBy(g, set, op, task)
<1> DEFINE n == Len(task)
           g == CHOOSE f : Ran(set, op, task, f, n)
<1>1. Ran(set, op, task, g, n)
    BY RunExists
<1>2. RunTask(set, op, task) = g[n]
    BY Zenon DEF RunTask, Ran
<1> HIDE DEF g
<1>3. \A m \in 0 .. n : g[m] = IF m = 0 THEN Result(set, FALSE)
                               ELSE IF g[m - 1].threw THEN g[m - 1]
                               ELSE WorkItem(g[m - 1].set, op, task[m])
    BY <1>1, Zenon DEF Ran
<1>4. 0 \in 0 .. n /\ \A m \in 1 .. n : m \in 0 .. n /\ m # 0
    OBVIOUS
<1>5. g[0] = Result(set, FALSE)
    BY <1>3, <1>4
<1>6. \A m \in 1 .. n : g[m] = IF g[m - 1].threw THEN g[m - 1] ELSE WorkItem(g[m - 1].set, op, task[m])
    <2> HIDE DEF n
    <2> QED
        BY <1>3, <1>4, Zenon
<1> QED
    BY <1>2, <1>5, <1>6 DEF RunsBy

(***************************************************************************)
(* The m-th work of a task is for an item at a start.                      *)
(***************************************************************************)
IsFor(data, task, who, m, o, t) == data[who[m]].item = o /\ BinOf(task[m].loc) = t

\* What stands at a position of a task: a datum of the call at one of its locations.
LEMMA WorksAt ==
    ASSUME NEW data \in Seq(Datum), NEW idx, NEW task, NEW who, WorksOf(data, idx, task, who),
           NEW m \in DOMAIN task
    PROVE  /\ who[m] \in DOMAIN data /\ data[who[m]] \in Datum
           /\ task[m].loc \in Nat /\ BundleOf(task[m].loc) = idx
           /\ task[m] = WorkFor(data[who[m]], task[m].loc)
           /\ Lies(data[who[m]].item, BinOf(task[m].loc), idx)
<1>1. /\ who[m] \in DOMAIN data /\ task[m].loc \in ToSet(ItemLocs[data[who[m]].item])
      /\ BundleOf(task[m].loc) = idx /\ task[m] = WorkFor(data[who[m]], task[m].loc)
    BY Zenon DEF WorksOf
<1>2. data[who[m]] \in Datum
    BY <1>1
<1>3. ItemLocs[data[who[m]].item] \in Seq(Nat)
    BY <1>2, BundleSetAssumption DEF Datum
<1>4. task[m].loc \in Nat
    BY <1>1, <1>3 DEF ToSet
<1>5. Lies(data[who[m]].item, BinOf(task[m].loc), idx)
    BY <1>1 DEF Lies
<1> QED
    BY <1>1, <1>2, <1>4, <1>5

\* Two works of one datum start at different bins.
LEMMA WorksDiffer ==
    ASSUME NEW data \in Seq(Datum), NEW idx, NEW task, NEW who, WorksOf(data, idx, task, who),
           NEW m \in DOMAIN task, NEW n \in DOMAIN task, who[m] = who[n],
           BinOf(task[m].loc) = BinOf(task[n].loc)
    PROVE  m = n
<1>1. /\ task[m].loc \in Nat /\ BundleOf(task[m].loc) = idx
      /\ task[n].loc \in Nat /\ BundleOf(task[n].loc) = idx
    BY WorksAt
<1>2. task[m].loc = task[n].loc
    BY <1>1, PlaceIsLoc
<1> QED
    BY <1>2, Zenon DEF WorksOf

\* After n works of an insertion: what is told of others stays, and what nobody
\* has told is what the work has inserted.
Inserted(V, W, data, task, who, n) ==
    /\ \A o, t, c : Told(V, o, t, c) /\ (\A m \in 1 .. n : ~IsFor(data, task, who, m, o, t)) => Told(W, o, t, c)
    /\ \A m \in 1 .. n : \A o, t : Told(V, o, t, Absent) /\ IsFor(data, task, who, m, o, t)
                                     => Told(W, o, t, data[who[m]].label)

\* A task that inserts new items: afterwards they are told with their labels,
\* and of the other items what was told before.
LEMMA InsertRun ==
    ASSUME Labeled, Absent \notin Labels, NEW E, NEW may, NEW exact, NEW set, GoodSet(set, E, may, exact),
           NEW idx, RowSet(set, idx), NEW data \in Seq(Datum), \A j \in DOMAIN data : data[j].label \in Labels,
           \A j, m \in DOMAIN data : data[j].item = data[m].item => j = m,
           NEW task \in Seq(Entries(E)), NEW who, WorksOf(data, idx, task, who)
    PROVE  LET out == RunTask(set, "insert", task)
           IN  /\ ~out.threw /\ RowSet(out.set, idx)
               /\ Inserted(BinsOf(set), BinsOf(out.set), data, task, who, Len(task))
<1> DEFINE N == Len(task)
           V == BinsOf(set)
<1>1. N \in Nat /\ DOMAIN task = 1 .. N /\ \A m \in 1 .. N : task[m] \in Entries(E)
    OBVIOUS
<1>0. PICK g : RunsBy(g, set, "insert", task)
    BY <1>1, RunSteps
<1>2. /\ RunTask(set, "insert", task) = g[N]
      /\ g[0] = Result(set, FALSE)
      /\ \A m \in 1 .. N : g[m] = IF g[m - 1].threw THEN g[m - 1]
                                  ELSE WorkItem(g[m - 1].set, "insert", task[m])
    BY <1>0, Zenon DEF RunsBy
<1> DEFINE S == {n \in 0 .. N : /\ ~g[n].threw /\ GoodSet(g[n].set, E, may, exact) /\ RowSet(g[n].set, idx)
                                /\ Inserted(V, BinsOf(g[n].set), data, task, who, n)}
<1>3. 0 \in S
    <2>1. g[0].set = set /\ g[0].threw = FALSE
        BY <1>2 DEF Result
    <2>2. 1 .. 0 = {} /\ 0 \in 0 .. N
        BY <1>1
    <2>3. Inserted(V, V, data, task, who, 0)
        BY <2>2 DEF Inserted
    <2> QED
        BY <2>1, <2>2, <2>3
<1> HIDE DEF N, V
<1>4. ASSUME NEW n \in 1 .. N, n - 1 \in S PROVE n \in S
    <2> DEFINE old == g[n - 1].set
               d == data[who[n]]
               loc == task[n].loc
               out == InsertItem(old, WorkFor(d, loc), FALSE)
               U == BinsOf(old)
               W == BinsOf(out.set)
    <2>1. /\ n \in DOMAIN task /\ n \in 0 .. N /\ n \in Nat /\ \A m \in 1 .. n : m \in 1 .. n - 1 \/ m = n
          /\ \A m \in 1 .. n : m \in DOMAIN task
          /\ \A m \in 1 .. n - 1 : m \in 1 .. n /\ m # n
          /\ n \in 1 .. n
        BY <1>1
    <2>2. ~g[n - 1].threw /\ GoodSet(old, E, may, exact) /\ RowSet(old, idx) /\ Inserted(V, U, data, task, who, n - 1)
        BY <1>4
    <2>3. d \in Datum /\ who[n] \in DOMAIN data /\ d.label \in Labels /\ loc \in Nat /\ task[n] = WorkFor(d, loc)
          /\ Lies(d.item, BinOf(loc), idx)
        BY <2>1, WorksAt
    <2> HIDE DEF d, loc, old
    <2>4. g[n] = out
        <3>1. g[n] = WorkItem(old, "insert", WorkFor(d, loc))
            BY <1>2, <2>2, <2>3 DEF old
        <3>2. ("insert" = "overwrite") = FALSE
            OBVIOUS
        <3> QED
            BY <3>1, <3>2 DEF WorkItem
    <2>5. /\ ~out.threw /\ RowSet(out.set, idx)
          /\ \A o, t, c : Told(U, o, t, c) /\ (o # d.item \/ t # BinOf(loc)) => Told(W, o, t, c)
          /\ Told(U, d.item, BinOf(loc), Absent) => Told(W, d.item, BinOf(loc), d.label)
        BY <2>2, <2>3, InsertItemRows
    <2>6. GoodSet(g[n].set, E, may, exact)
        <3>1. WorkFor(d, loc) \in Entries(E)
            BY <1>1, <2>1, <2>3
        <3>2. GoodSet(InsertItem(old, WorkFor(d, loc), FALSE).set, E, may, exact)
            BY <2>2, <3>1, InsertItemIsGood, Zenon
        <3> QED
            BY <2>4, <3>2
    <2> HIDE DEF out, U, W
    <2>7. \A o, t : IsFor(data, task, who, n, o, t) <=> o = d.item /\ t = BinOf(loc)
        BY DEF IsFor, d, loc
    <2>8. ASSUME NEW m \in 1 .. n - 1, NEW o, NEW t, IsFor(data, task, who, m, o, t),
                 IsFor(data, task, who, n, o, t)
          PROVE  FALSE
        <3>1. m \in DOMAIN task /\ m # n
            BY <2>1
        <3>2. who[m] \in DOMAIN data /\ who[n] \in DOMAIN data
            BY <2>1, <3>1, WorksAt
        <3>3. data[who[m]].item = data[who[n]].item /\ BinOf(task[m].loc) = BinOf(task[n].loc)
            BY <2>8 DEF IsFor
        <3>4. who[m] = who[n]
            BY <3>2, <3>3
        <3> QED
            BY <2>1, <3>1, <3>3, <3>4, WorksDiffer
    <2>9. ASSUME NEW o, NEW t, NEW c, Told(V, o, t, c), \A m \in 1 .. n : ~IsFor(data, task, who, m, o, t)
          PROVE  Told(W, o, t, c)
        <3>1. Told(U, o, t, c)
            BY <2>1, <2>2, <2>9, Zenon DEF Inserted
        <3>2. o # d.item \/ t # BinOf(loc)
            BY <2>1, <2>7, <2>9
        <3> QED
            BY <2>5, <3>1, <3>2
    <2>10. ASSUME NEW m \in 1 .. n, NEW o, NEW t, Told(V, o, t, Absent), IsFor(data, task, who, m, o, t)
           PROVE  Told(W, o, t, data[who[m]].label)
        <3>1. CASE m \in 1 .. n - 1
            <4>1. Told(U, o, t, data[who[m]].label)
                BY <2>2, <2>10, <3>1, Zenon DEF Inserted
            <4>2. o # d.item \/ t # BinOf(loc)
                BY <2>7, <2>8, <2>10, <3>1
            <4> QED
                BY <2>5, <4>1, <4>2
        <3>2. CASE m = n
            <4>1. \A k \in 1 .. n - 1 : ~IsFor(data, task, who, k, o, t)
                BY <2>8, <2>10, <3>2
            <4>2. Told(U, o, t, Absent)
                BY <2>2, <2>10, <4>1, Zenon DEF Inserted
            <4>3. o = d.item /\ t = BinOf(loc)
                BY <2>7, <2>10, <3>2
            <4>4. Told(W, o, t, d.label)
                BY <2>5, <4>2, <4>3
            <4> QED
                BY <3>2, <4>4 DEF d
        <3> QED
            BY <2>1, <3>1, <3>2
    <2>11. Inserted(V, W, data, task, who, n)
        BY <2>9, <2>10, Zenon DEF Inserted
    <2>12. BinsOf(g[n].set) = W
        BY <2>4 DEF W
    <2> QED
        BY <2>1, <2>4, <2>5, <2>6, <2>11, <2>12
<1>5. N \in S
    <2> HIDE DEF S
    <2>1. 0 .. N \subseteq S
        BY <1>1, <1>3, <1>4, UpTo
    <2> QED
        BY <1>1, <2>1
<1> QED
    BY <1>2, <1>5 DEF N, V


\* All that a removal leaves as it was: what is told of the items it does not
\* name, and that of an item nothing is told.
Spared(V, W, data) ==
    \A o, t, c : Told(V, o, t, c) /\ (c = Absent \/ \A j \in DOMAIN data : data[j].item # o) => Told(W, o, t, c)

\* Item o is told at all its places at one bundle index; it is no longer.
ToldAt(V, idx, o, c) == \A loc \in ToSet(ItemLocs[o]) : BundleOf(loc) = idx => Told(V, o, BinOf(loc), c)

\* How far the works of the first datum have come.
FirstGone(W, data, task, who, c, n, threw) ==
    /\ \A m \in 1 .. n : who[m] = 1 => Told(W, data[1].item, BinOf(task[m].loc), Absent)
    /\ \A m \in DOMAIN task : m > n /\ who[m] = 1 => Told(W, data[1].item, BinOf(task[m].loc), c)
    /\ n = 0 \/ who[n] = 1 => ~threw

\* A task that removes: the first item, if it was there, is gone even if the task
\* throws at a later one, and the items it does not name are as they were.
LEMMA RemoveRun ==
    ASSUME Labeled, ItemsApart, NEW E, NEW may, NEW exact, NEW set, GoodSet(set, E, may, exact),
           NEW idx, RowSet(set, idx), NEW data \in Seq(Datum), data # <<>>,
           NEW task \in Seq(Entries(E)), NEW who, WorksOf(data, idx, task, who)
    PROVE  LET out == RunTask(set, "remove", task)
           IN  /\ RowSet(out.set, idx) /\ Spared(BinsOf(set), BinsOf(out.set), data)
               /\ \A c : c # Absent /\ ToldAt(BinsOf(set), idx, data[1].item, c)
                           => ToldAt(BinsOf(out.set), idx, data[1].item, Absent)
<1> DEFINE N == Len(task)
           V == BinsOf(set)
           out == RunTask(set, "remove", task)
           Told1(c) == c # Absent /\ ToldAt(V, idx, data[1].item, c)
<1>1. N \in Nat /\ DOMAIN task = 1 .. N /\ \A m \in 1 .. N : task[m] \in Entries(E)
    OBVIOUS
<1>0. PICK g : RunsBy(g, set, "remove", task)
    BY <1>1, RunSteps
<1>2. /\ RunTask(set, "remove", task) = g[N]
      /\ g[0] = Result(set, FALSE)
      /\ \A m \in 1 .. N : g[m] = IF g[m - 1].threw THEN g[m - 1]
                                  ELSE WorkItem(g[m - 1].set, "remove", task[m])
    BY <1>0, Zenon DEF RunsBy
<1> DEFINE P(n) == /\ GoodSet(g[n].set, E, may, exact) /\ RowSet(g[n].set, idx) /\ Spared(V, BinsOf(g[n].set), data)
                   /\ \A c : Told1(c) => FirstGone(BinsOf(g[n].set), data, task, who, c, n, g[n].threw)
           S == {n \in 0 .. N : P(n)}
<1>3. 0 \in S
    <2>1. g[0].set = set /\ g[0].threw = FALSE
        BY <1>2 DEF Result
    <2>2. 1 .. 0 = {} /\ 0 \in 0 .. N
        BY <1>1
    <2>3. Spared(V, V, data)
        BY DEF Spared
    <2>4. ASSUME NEW c, Told1(c) PROVE FirstGone(V, data, task, who, c, 0, FALSE)
        <3>1. ASSUME NEW m \in DOMAIN task, who[m] = 1 PROVE Told(V, data[1].item, BinOf(task[m].loc), c)
            <4>1. task[m].loc \in ToSet(ItemLocs[data[1].item]) /\ BundleOf(task[m].loc) = idx
                BY <3>1, Zenon DEF WorksOf
            <4> HIDE DEF V
            <4> QED
                BY <2>4, <4>1 DEF ToldAt
        <3> HIDE DEF V
        <3> QED
            BY <2>2, <3>1, Zenon DEF FirstGone
    <2> HIDE DEF V
    <2>5. P(0)
        <3>1. BinsOf(g[0].set) = V
            BY <2>1 DEF V
        <3> HIDE DEF Told1
        <3> QED
            BY <2>1, <2>3, <2>4, <3>1, Zenon
    <2> QED
        BY <2>2, <2>5
<1> HIDE DEF N, V, Told1, out
<1>4. ASSUME NEW n \in 1 .. N, P(n - 1) PROVE P(n)
    <2> DEFINE old == g[n - 1].set
               d == data[who[n]]
               loc == task[n].loc
               next == RemoveItem(old, WorkFor(d, loc))
               U == BinsOf(old)
               W == BinsOf(next.set)
    <2>1. /\ n \in DOMAIN task /\ n \in Nat
          /\ \A m \in 1 .. n : m \in DOMAIN task /\ (m \in 1 .. n - 1 \/ m = n)
          /\ \A m \in 1 .. n - 1 : m \in DOMAIN task /\ m # n /\ m < n
          /\ \A m \in DOMAIN task : m > n => m > n - 1 /\ n < m /\ m # n
          /\ n > n - 1 /\ n # 0 /\ (n - 1 # 0 => n - 1 \in DOMAIN task /\ n - 1 < n)
        BY <1>1
    <2>2. /\ GoodSet(old, E, may, exact) /\ RowSet(old, idx) /\ Spared(V, U, data)
          /\ \A c : Told1(c) => FirstGone(U, data, task, who, c, n - 1, g[n - 1].threw)
        BY <1>4
    <2>3. /\ d \in Datum /\ who[n] \in DOMAIN data /\ loc \in Nat /\ task[n] = WorkFor(d, loc)
          /\ Lies(d.item, BinOf(loc), idx)
        BY <2>1, WorksAt
    <2>4. g[n] = IF g[n - 1].threw THEN g[n - 1] ELSE next
        <3>1. WorkItem(old, "remove", WorkFor(d, loc)) = next
            BY Zenon DEF WorkItem
        <3>2. g[n] = IF g[n - 1].threw THEN g[n - 1] ELSE WorkItem(old, "remove", task[n])
            BY <1>2
        <3> HIDE DEF d, loc, old, next
        <3> QED
            BY <2>3, <3>1, <3>2
    <2>5. ASSUME NEW m \in DOMAIN task, m < n, who[n] = 1 PROVE who[m] = 1
        <3>1. who[m] \in DOMAIN data /\ who[m] <= who[n]
            BY <2>1, <2>5, Zenon DEF WorksOf
        <3>2. DOMAIN data = 1 .. Len(data) /\ Len(data) \in Nat
            OBVIOUS
        <3> QED
            BY <2>5, <3>1, <3>2
    <2>6. ASSUME NEW m \in DOMAIN task, n < m, who[m] = 1 PROVE who[n] = 1
        <3>1. who[n] \in DOMAIN data /\ who[n] <= who[m]
            BY <2>1, <2>6, Zenon DEF WorksOf
        <3>2. DOMAIN data = 1 .. Len(data) /\ Len(data) \in Nat
            OBVIOUS
        <3> QED
            BY <2>6, <3>1, <3>2
    <2>7. \A c : Told1(c) =>
             /\ \A m \in 1 .. n - 1 : who[m] = 1 => Told(U, data[1].item, BinOf(task[m].loc), Absent)
             /\ \A m \in DOMAIN task : m > n - 1 /\ who[m] = 1 => Told(U, data[1].item, BinOf(task[m].loc), c)
             /\ who[n] = 1 => ~g[n - 1].threw
        <3> SUFFICES ASSUME NEW c, Told1(c)
                     PROVE  /\ \A m \in 1 .. n - 1 : who[m] = 1 => Told(U, data[1].item, BinOf(task[m].loc), Absent)
                            /\ \A m \in DOMAIN task : m > n - 1 /\ who[m] = 1
                                                        => Told(U, data[1].item, BinOf(task[m].loc), c)
                            /\ who[n] = 1 => ~g[n - 1].threw
            OBVIOUS
        <3> HIDE DEF U
        <3>1. FirstGone(U, data, task, who, c, n - 1, g[n - 1].threw)
            BY <2>2
        <3>2. /\ \A m \in 1 .. n - 1 : who[m] = 1 => Told(U, data[1].item, BinOf(task[m].loc), Absent)
              /\ \A m \in DOMAIN task : m > n - 1 /\ who[m] = 1 => Told(U, data[1].item, BinOf(task[m].loc), c)
              /\ n - 1 = 0 \/ who[n - 1] = 1 => ~g[n - 1].threw
            BY <3>1, Zenon DEF FirstGone
        <3>3. who[n] = 1 => n - 1 = 0 \/ who[n - 1] = 1
            BY <2>1, <2>5
        <3> QED
            BY <3>2, <3>3
    <2>8. CASE g[n - 1].threw
        <3>1. g[n] = g[n - 1]
            BY <2>4, <2>8
        <3>2. ASSUME NEW c, Told1(c) PROVE FirstGone(U, data, task, who, c, n, g[n].threw)
            <4> HIDE DEF U
            <4>1. who[n] # 1
                BY <2>7, <2>8, <3>2
            <4>2. \A m \in 1 .. n : who[m] = 1 => Told(U, data[1].item, BinOf(task[m].loc), Absent)
                BY <2>1, <2>7, <3>2, <4>1
            <4>3. \A m \in DOMAIN task : m > n /\ who[m] = 1 => Told(U, data[1].item, BinOf(task[m].loc), c)
                BY <2>1, <2>7, <3>2
            <4> QED
                BY <2>1, <4>1, <4>2, <4>3, Zenon DEF FirstGone
        <3> QED
            BY <2>2, <3>1, <3>2
    <2>9. CASE ~g[n - 1].threw
        <3>1. g[n] = next
            BY <2>4, <2>9
        <3> HIDE DEF d, loc, old
        <3>2. /\ RowSet(next.set, idx)
              /\ \A o, t, c : Told(U, o, t, c) /\ (o # d.item \/ t # BinOf(loc)) => Told(W, o, t, c)
              /\ \A c : Told(U, d.item, BinOf(loc), c)
                           => /\ Told(W, d.item, BinOf(loc), Absent)
                              /\ c # Absent => ~next.threw
            <4>1. GoodSet(old, E, may, exact) /\ RowSet(old, idx) /\ d \in Datum /\ loc \in Nat
                  /\ Lies(d.item, BinOf(loc), idx)
                BY <2>2, <2>3
            <4> HIDE DEF U, W, next
            <4> QED
                BY <4>1, RemoveItemRows DEF U, W, next
        <3>3. GoodSet(next.set, E, may, exact)
            <4>1. WorkFor(d, loc) \in Entries(E)
                BY <1>1, <2>3
            <4> QED
                BY <2>2, <4>1, RemoveItemIsGood, Zenon
        <3> HIDE DEF next, U, W
        <3>4. Spared(V, W, data)
            <4> SUFFICES ASSUME NEW o, NEW t, NEW c, Told(V, o, t, c),
                                c = Absent \/ \A j \in DOMAIN data : data[j].item # o
                         PROVE  Told(W, o, t, c)
                BY DEF Spared
            <4>1. Told(U, o, t, c)
                BY <2>2 DEF Spared
            <4>2. CASE o # d.item \/ t # BinOf(loc)
                BY <3>2, <4>1, <4>2
            <4>3. CASE ~(o # d.item \/ t # BinOf(loc))
                <5>1. c = Absent
                    BY <2>3, <4>3 DEF d
                <5> QED
                    BY <3>2, <4>1, <4>3, <5>1
            <4> QED
                BY <4>2, <4>3
        <3>5. ASSUME NEW c, Told1(c) PROVE FirstGone(W, data, task, who, c, n, next.threw)
            <4>1. ASSUME NEW m \in 1 .. n, who[m] = 1
                  PROVE  Told(W, data[1].item, BinOf(task[m].loc), Absent)
                <5>1. CASE m = n
                    <6>1. d = data[1] /\ Told(U, d.item, BinOf(loc), c)
                        BY <2>1, <2>7, <3>5, <4>1, <5>1 DEF d, loc
                    <6> QED
                        BY <3>2, <5>1, <6>1 DEF loc
                <5>2. CASE m \in 1 .. n - 1
                    <6>1. Told(U, data[1].item, BinOf(task[m].loc), Absent)
                        BY <2>7, <3>5, <4>1, <5>2
                    <6>2. CASE data[1].item = d.item /\ BinOf(task[m].loc) = BinOf(loc)
                        BY <3>2, <6>1, <6>2
                    <6>3. CASE ~(data[1].item = d.item /\ BinOf(task[m].loc) = BinOf(loc))
                        BY <3>2, <6>1, <6>3
                    <6> QED
                        BY <6>2, <6>3
                <5> QED
                    BY <2>1, <5>1, <5>2
            <4>2. ASSUME NEW m \in DOMAIN task, m > n, who[m] = 1
                  PROVE  Told(W, data[1].item, BinOf(task[m].loc), c)
                <5>1. who[n] = 1 /\ m # n /\ m > n - 1
                    BY <2>1, <2>6, <4>2
                <5>2. Told(U, data[1].item, BinOf(task[m].loc), c)
                    BY <2>7, <3>5, <4>2, <5>1
                <5>3. BinOf(task[m].loc) # BinOf(loc)
                    BY <2>1, <4>2, <5>1, WorksDiffer DEF loc
                <5> QED
                    BY <3>2, <5>2, <5>3
            <4>3. who[n] = 1 => ~next.threw
                <5> SUFFICES ASSUME who[n] = 1 PROVE ~next.threw
                    OBVIOUS
                <5>1. Told(U, d.item, BinOf(loc), c)
                    BY <2>1, <2>7, <3>5 DEF d, loc
                <5>2. c # Absent
                    BY <3>5 DEF Told1
                <5> QED
                    BY <3>2, <5>1, <5>2
            <4> QED
                BY <2>1, <4>1, <4>2, <4>3, Zenon DEF FirstGone
        <3>6. BinsOf(g[n].set) = W
            BY <3>1 DEF W
        <3> QED
            BY <3>1, <3>2, <3>3, <3>4, <3>5, <3>6
    <2> QED
        BY <2>8, <2>9
<1>5. P(N)
    <2>1. \A n \in 1 .. N : n - 1 \in S => n \in S
        <3> HIDE DEF P
        <3> SUFFICES ASSUME NEW n \in 1 .. N, n - 1 \in S PROVE n \in S
            OBVIOUS
        <3>1. P(n)
            BY <1>4
        <3>2. n \in 0 .. N
            BY <1>1
        <3> QED
            BY <3>1, <3>2
    <2> HIDE DEF P
    <2>2. N \in 0 .. N
        BY <1>1
    <2>3. 0 .. N \subseteq S
        <3> HIDE DEF S
        <3> QED
            BY <1>1, <1>3, <2>1, UpTo
    <2> QED
        BY <2>2, <2>3
<1>6. ASSUME NEW c, Told1(c) PROVE ToldAt(BinsOf(g[N].set), idx, data[1].item, Absent)
    <2> DEFINE W == BinsOf(g[N].set)
    <2>1. FirstGone(W, data, task, who, c, N, g[N].threw)
        BY <1>5, <1>6
    <2> HIDE DEF W
    <2> SUFFICES ASSUME NEW loc \in ToSet(ItemLocs[data[1].item]), BundleOf(loc) = idx
                 PROVE  Told(W, data[1].item, BinOf(loc), Absent)
        BY DEF ToldAt, W
    <2>2. 1 \in DOMAIN data
        OBVIOUS
    <2>3. PICK m \in DOMAIN task : who[m] = 1 /\ task[m].loc = loc
        BY <2>2, Zenon DEF WorksOf
    <2> QED
        BY <1>1, <2>1, <2>3 DEF FirstGone
<1>7. out = g[N]
    BY <1>2 DEF out
<1>8. \A c : c # Absent /\ ToldAt(V, idx, data[1].item, c) => ToldAt(BinsOf(g[N].set), idx, data[1].item, Absent)
    BY <1>6 DEF Told1
<1> QED
    BY <1>5, <1>7, <1>8 DEF V, out

\* What a query reads of a bundle once its cache is valid.
View(b) == IF b.cache_invalid THEN b.bins ELSE b.cache
Views(set) == [j \in DOMAIN set |-> View(set[j])]

\* The bundles at an index are made of whole rows, and of the items without
\* doubt they tell what the calls have built.
RightAt(V, idx, doubt, content) ==
    /\ \A j \in DOMAIN V : SoundBins(V[j], idx)
    /\ \A i \in Items \ doubt : ToldAt(V, idx, i, content[i])

\* No bundle has lost its bins.
Whole(set) == \A j \in DOMAIN set : ~set[j].stripped

\* A database some of whose answers are still promised is right at each index.
Right(d) ==
    d.doubt # Items =>
        \A idx \in BundleIdx :
            /\ RightAt(Views(d.bundles[idx]), idx, d.doubt, d.content)
            /\ ~d.stripped => Whole(d.bundles[idx])

\* Every element of the one comes from one of the other, and each is used.
Rearranged(V, W, h) ==
    /\ h \in [DOMAIN W -> DOMAIN V]
    /\ \A k, m \in DOMAIN W : h[k] = h[m] => k = m
    /\ \A k \in DOMAIN W : W[k] = V[h[k]]
    /\ \A j \in DOMAIN V : \E k \in DOMAIN W : h[k] = j

\* The order of the bundles at an index says nothing.
LEMMA RightThere ==
    ASSUME NEW V, NEW W, NEW h, Rearranged(V, W, h), NEW idx, NEW doubt, NEW content,
           RightAt(V, idx, doubt, content)
    PROVE  RightAt(W, idx, doubt, content)
<1>1. \A k \in DOMAIN W : SoundBins(W[k], idx)
    BY DEF Rearranged, RightAt
<1>2. /\ h \in [DOMAIN W -> DOMAIN V]
      /\ \A k, m \in DOMAIN W : h[k] = h[m] => k = m
      /\ \A j \in DOMAIN V : RowsIn(V[j]) # {} => \E k \in DOMAIN W : h[k] = j
    BY DEF Rearranged
<1>3. \A k \in DOMAIN W : RowsIn(W[k]) = RowsIn(V[h[k]])
    BY DEF Rearranged
<1>4. ASSUME NEW i \in Items \ doubt PROVE ToldAt(W, idx, i, content[i])
    <2>1. SUFFICES ASSUME NEW loc \in ToSet(ItemLocs[i]), BundleOf(loc) = idx
                   PROVE  Told(W, i, BinOf(loc), content[i])
        BY DEF ToldAt
    <2>2. Told(V, i, BinOf(loc), content[i])
        BY <2>1 DEF RightAt, ToldAt
    <2> QED
        BY <1>2, <1>3, <2>2, ToldThere
<1> QED
    BY <1>1, <1>4 DEF RightAt

\* A regenerated cache shows what the bundle showed.
LEMMA RegenKeepsView == ASSUME NEW b PROVE View(RegenCache(b)) = View(b)
BY DEF View, RegenCache

\* So it does for all bundles of a database.
LEMMA RegenKeepsViews ==
    ASSUME NEW bb, NEW idx \in BundleIdx
    PROVE  /\ Views(GenerateCaches(bb)[idx]) = Views(bb[idx])
           /\ Whole(bb[idx]) => Whole(GenerateCaches(bb)[idx])
<1>1. GenerateCaches(bb)[idx] = [j \in DOMAIN bb[idx] |-> RegenCache(bb[idx][j])]
    BY DEF GenerateCaches
<1>2. \A j \in DOMAIN bb[idx] : RegenCache(bb[idx][j]).stripped = bb[idx][j].stripped
    BY DEF RegenCache
<1>3. \A j \in DOMAIN bb[idx] : View(RegenCache(bb[idx][j])) = View(bb[idx][j])
    BY RegenKeepsView
<1> QED
    BY <1>1, <1>2, <1>3 DEF Views, Whole

\* Stripping a bundle keeps what it shows.
LEMMA StripKeepsView == ASSUME NEW b PROVE View(StripBundle(b)) = View(b)
BY DEF View, StripBundle, RegenCache

\* Caches that come from no damaged file show the bins.
LEMMA ViewsAreBins ==
    ASSUME NEW E, NEW may, NEW set, GoodSet(set, E, may, TRUE), Whole(set)
    PROVE  Views(set) = BinsOf(set)
<1>1. ASSUME NEW j \in DOMAIN set PROVE View(set[j]) = set[j].bins
    BY DEF GoodSet, GoodBundle, Whole, View
<1> QED
    BY <1>1, Zenon DEF Views, BinsOf

\* New items appear with their labels, and nothing else changes.
LEMMA InsertedIsRight ==
    ASSUME NEW V, NEW W, NEW idx, NEW doubt, NEW content, NEW content2, RightAt(V, idx, doubt, content),
           NEW new \in Seq(Datum), NEW task, NEW who, WorksOf(new, idx, task, who),
           Inserted(V, W, new, task, who, Len(task)), \A j \in DOMAIN W : SoundBins(W[j], idx),
           \A j \in DOMAIN new : content[new[j].item] = Absent /\ content2[new[j].item] = new[j].label,
           \A i \in Items : (\A j \in DOMAIN new : new[j].item # i) => content2[i] = content[i]
    PROVE  RightAt(W, idx, doubt, content2)
<1>1. SUFFICES ASSUME NEW o \in Items \ doubt, NEW loc \in ToSet(ItemLocs[o]), BundleOf(loc) = idx
               PROVE  Told(W, o, BinOf(loc), content2[o])
    BY DEF RightAt, ToldAt
<1>2. Told(V, o, BinOf(loc), content[o])
    BY <1>1 DEF RightAt, ToldAt
<1>3. DOMAIN task = 1 .. Len(task)
    BY IsSeqFacts DEF WorksOf
<1>4. CASE \E j \in DOMAIN new : new[j].item = o
    <2>1. PICK j \in DOMAIN new : new[j].item = o
        BY <1>4
    <2>2. PICK m \in DOMAIN task : who[m] = j /\ task[m].loc = loc
        BY <1>1, <2>1 DEF WorksOf
    <2>3. IsFor(new, task, who, m, o, BinOf(loc)) /\ m \in 1 .. Len(task)
        BY <1>3, <2>1, <2>2 DEF IsFor
    <2>4. Told(V, o, BinOf(loc), Absent)
        BY <1>2, <2>1
    <2>5. Told(W, o, BinOf(loc), new[who[m]].label)
        BY <2>3, <2>4 DEF Inserted
    <2> QED
        BY <2>1, <2>2, <2>5
<1>5. CASE \A j \in DOMAIN new : new[j].item # o
    <2>1. \A m \in 1 .. Len(task) : ~IsFor(new, task, who, m, o, BinOf(loc))
        BY <1>3, <1>5 DEF IsFor, WorksOf
    <2>2. Told(W, o, BinOf(loc), content[o])
        BY <1>2, <2>1 DEF Inserted
    <2> QED
        BY <1>1, <1>5, <2>2
<1> QED
    BY <1>4, <1>5

\* A removed item is gone, and nothing else changes.
LEMMA RemovedIsRight ==
    ASSUME NEW V, NEW W, NEW idx, NEW doubt, NEW content, RightAt(V, idx, doubt, content),
           NEW data, NEW i \in Items, data[1].item = i, content[i] # Absent, DOMAIN content = Items,
           \A j \in DOMAIN data : data[j].item = i \/ content[data[j].item] = Absent,
           Spared(V, W, data), \A j \in DOMAIN W : SoundBins(W[j], idx),
           \A c : c # Absent /\ ToldAt(V, idx, data[1].item, c) => ToldAt(W, idx, data[1].item, Absent)
    PROVE  RightAt(W, idx, doubt, [content EXCEPT ![i] = Absent])
<1> DEFINE less == [content EXCEPT ![i] = Absent]
<1>1. SUFFICES ASSUME NEW o \in Items \ doubt PROVE ToldAt(W, idx, o, less[o])
    BY DEF RightAt
<1>2. ToldAt(V, idx, o, content[o])
    BY DEF RightAt
<1>3. CASE o = i
    <2>1. less[o] = Absent
        BY <1>3
    <2> QED
        BY <1>2, <1>3, <2>1
<1>4. CASE o # i
    <2>1. less[o] = content[o]
        BY <1>4
    <2>2. content[o] = Absent \/ \A j \in DOMAIN data : data[j].item # o
        BY <1>4
    <2>3. \A t : Told(V, o, t, content[o]) => Told(W, o, t, content[o])
        BY <2>2 DEF Spared
    <2>4. ToldAt(W, idx, o, content[o])
        BY <1>2, <2>3 DEF ToldAt
    <2> QED
        BY <2>1, <2>4
<1> QED
    BY <1>3, <1>4

\* What a task at an index finds, as the lemmas about rows want it.
LEMMA SetIsRight ==
    ASSUME NEW d, GoodDb(d), Right(d), d.doubt # Items, ~d.garbled, ~d.stripped, NEW idx \in BundleIdx
    PROVE  /\ GoodSet(d.bundles[idx], SavedEntry, TRUE, TRUE) /\ RowSet(d.bundles[idx], idx)
           /\ RightAt(BinsOf(d.bundles[idx]), idx, d.doubt, d.content)
<1> DEFINE set == d.bundles[idx]
<1>1. GoodSet(set, SavedEntry, TRUE, ~d.garbled)
    BY DEF GoodDb
<1>2. RightAt(Views(set), idx, d.doubt, d.content) /\ Whole(set)
    BY DEF Right
<1> HIDE DEF set
<1>3. GoodSet(set, SavedEntry, TRUE, TRUE)
    <2>1. \A j \in DOMAIN set : GoodBundle(set[j], SavedEntry, TRUE, TRUE)
        BY <1>1, Weaken DEF GoodSet
    <2> QED
        BY <1>1, <2>1 DEF GoodSet
<1>4. Views(set) = BinsOf(set)
    BY <1>2, <1>3, ViewsAreBins, Zenon
<1>5. RowSet(set, idx)
    <2>1. \A j \in DOMAIN BinsOf(set) : SoundBins(BinsOf(set)[j], idx)
        BY <1>2, <1>4 DEF RightAt
    <2>2. \A j \in DOMAIN set : BinsOf(set)[j] = set[j].bins /\ j \in DOMAIN BinsOf(set)
        BY DEF BinsOf
    <2> QED
        BY <1>2, <2>1, <2>2, Zenon DEF RowSet, Whole
<1> QED
    BY <1>2, <1>3, <1>4, <1>5, Zenon DEF set

\* The work that the items of a call are at an index.
LEMMA TaskFacts ==
    ASSUME NEW data \in Seq(Datum), NEW idx
    PROVE  /\ TaskOf(data, idx) \in Seq(Entries(SavedEntry))
           /\ \E who : WorksOf(data, idx, TaskOf(data, idx), who)
<1>1. TaskOf(data, idx) \in Seq(Entries(SavedEntry))
    BY DatumFelts, TaskOfType, Zenon
<1> QED
    BY <1>1, TaskIs, Zenon

\* A set of rows shows its bins.
LEMMA RowSetViews ==
    ASSUME NEW set, GoodSet(set, SavedEntry, TRUE, TRUE), NEW idx, RowSet(set, idx)
    PROVE  /\ Whole(set) /\ Views(set) = BinsOf(set)
           /\ \A j \in DOMAIN BinsOf(set) : SoundBins(BinsOf(set)[j], idx)
<1>1. Whole(set)
    BY DEF RowSet, Whole
<1>2. Views(set) = BinsOf(set)
    BY <1>1, ViewsAreBins, Zenon
<1>3. \A j \in DOMAIN BinsOf(set) : SoundBins(BinsOf(set)[j], idx)
    BY DEF RowSet, BinsOf
<1> QED
    BY <1>1, <1>2, <1>3

\* The items of a call to insert appear at every bundle index.
LEMMA InsertedAt ==
    ASSUME Labeled, NEW d, GoodDb(d), Right(d), d.doubt # Items, ~d.garbled, ~d.stripped, NEW idx \in BundleIdx,
           NEW new \in Seq(Datum), \A j \in DOMAIN new : new[j].label \in Labels,
           \A j, m \in DOMAIN new : new[j].item = new[m].item => j = m, NEW content2,
           \A j \in DOMAIN new : d.content[new[j].item] = Absent /\ content2[new[j].item] = new[j].label,
           \A i \in Items : (\A j \in DOMAIN new : new[j].item # i) => content2[i] = d.content[i]
    PROVE  LET out == RunTask(d.bundles[idx], "insert", TaskOf(new, idx)).set
           IN  Whole(out) /\ RightAt(Views(out), idx, d.doubt, content2)
<1> DEFINE set == d.bundles[idx]
           task == TaskOf(new, idx)
           res == RunTask(set, "insert", task)
           out == res.set
<1>1. GoodSet(set, SavedEntry, TRUE, TRUE) /\ RowSet(set, idx) /\ RightAt(BinsOf(set), idx, d.doubt, d.content)
    BY SetIsRight, Zenon
<1>2. task \in Seq(Entries(SavedEntry)) /\ \E who : WorksOf(new, idx, task, who)
    BY TaskFacts, Zenon
<1>3. Absent \notin Labels
    BY SavedDBAssumption
<1> HIDE DEF set, task
<1>4. PICK who : WorksOf(new, idx, task, who)
    BY <1>2, Zenon
<1>5. GoodSet(out, SavedEntry, TRUE, TRUE)
    BY <1>1, <1>2, RunTaskIsGood, Zenon
<1>6. RowSet(out, idx) /\ Inserted(BinsOf(set), BinsOf(out), new, task, who, Len(task))
    BY <1>1, <1>2, <1>3, <1>4, InsertRun, Zenon
<1> HIDE DEF out
<1>7. Whole(out) /\ Views(out) = BinsOf(out) /\ \A j \in DOMAIN BinsOf(out) : SoundBins(BinsOf(out)[j], idx)
    BY <1>5, <1>6, RowSetViews, Zenon
<1>8. RightAt(BinsOf(out), idx, d.doubt, content2)
    <2> DEFINE V == BinsOf(set)
               W == BinsOf(out)
               content == d.content
    <2>1. /\ RightAt(V, idx, d.doubt, content) /\ Inserted(V, W, new, task, who, Len(task))
          /\ \A j \in DOMAIN W : SoundBins(W[j], idx)
          /\ \A j \in DOMAIN new : content[new[j].item] = Absent /\ content2[new[j].item] = new[j].label
          /\ \A i \in Items : (\A j \in DOMAIN new : new[j].item # i) => content2[i] = content[i]
        BY <1>1, <1>6, <1>7
    <2> HIDE DEF V, W, content
    <2>2. RightAt(W, idx, d.doubt, content2)
        BY <1>4, <2>1, InsertedIsRight
    <2> QED
        BY <2>2 DEF W
<1> QED
    BY <1>7, <1>8, Zenon DEF out, set, task

\* So does the absence of a removed one.
LEMMA RemovedAt ==
    ASSUME Labeled, ItemsApart,
           NEW d, GoodDb(d), Right(d), d.doubt # Items, ~d.garbled, ~d.stripped, NEW idx \in BundleIdx,
           NEW data \in Seq(Datum), data # <<>>, NEW i \in Items, data[1].item = i, d.content[i] # Absent,
           \A j \in DOMAIN data : data[j].item = i \/ d.content[data[j].item] = Absent
    PROVE  LET out == RunTask(d.bundles[idx], "remove", TaskOf(data, idx)).set
           IN  Whole(out) /\ RightAt(Views(out), idx, d.doubt, [d.content EXCEPT ![i] = Absent])
<1> DEFINE set == d.bundles[idx]
           task == TaskOf(data, idx)
           res == RunTask(set, "remove", task)
           out == res.set
<1>1. GoodSet(set, SavedEntry, TRUE, TRUE) /\ RowSet(set, idx) /\ RightAt(BinsOf(set), idx, d.doubt, d.content)
    BY SetIsRight, Zenon
<1>2. task \in Seq(Entries(SavedEntry)) /\ \E who : WorksOf(data, idx, task, who)
    BY TaskFacts, Zenon
<1>3. DOMAIN d.content = Items
    BY DEF GoodDb, Counted
<1> HIDE DEF set, task
<1>4. PICK who : WorksOf(data, idx, task, who)
    BY <1>2, Zenon
<1>5. GoodSet(out, SavedEntry, TRUE, TRUE)
    BY <1>1, <1>2, RunTaskIsGood, Zenon
<1>6. /\ RowSet(out, idx) /\ Spared(BinsOf(set), BinsOf(out), data)
      /\ \A c : c # Absent /\ ToldAt(BinsOf(set), idx, data[1].item, c)
                  => ToldAt(BinsOf(out), idx, data[1].item, Absent)
    BY <1>1, <1>2, <1>4, RemoveRun, Zenon
<1> HIDE DEF out
<1>7. Whole(out) /\ Views(out) = BinsOf(out) /\ \A j \in DOMAIN BinsOf(out) : SoundBins(BinsOf(out)[j], idx)
    BY <1>5, <1>6, RowSetViews, Zenon
<1>8. RightAt(BinsOf(out), idx, d.doubt, [d.content EXCEPT ![i] = Absent])
    BY <1>1, <1>3, <1>6, <1>7, RemovedIsRight, Zenon
<1> QED
    BY <1>7, <1>8, Zenon DEF out, set, task

\* A new database holds nothing.
LEMMA RecordIsRight == ASSUME NEW key PROVE Right(SenderDBRecord(key))
<1> DEFINE d == SenderDBRecord(key)
<1>1. /\ d.bundles = EmptyDB /\ d.content = [i \in Items |-> Absent] /\ d.doubt = {}
    BY DEF SenderDBRecord
<1> HIDE DEF d
<1>2. SUFFICES ASSUME NEW idx \in BundleIdx
               PROVE  RightAt(Views(d.bundles[idx]), idx, d.doubt, d.content) /\ Whole(d.bundles[idx])
    BY Zenon DEF Right, d
<1>3. d.bundles[idx] = <<>> /\ DOMAIN d.bundles[idx] = {}
    BY <1>1 DEF EmptyDB
<1>4. DOMAIN Views(d.bundles[idx]) = {}
    BY <1>3 DEF Views
<1>5. \A i \in Items : ToldAt(Views(d.bundles[idx]), idx, i, d.content[i])
    BY <1>1, <1>4 DEF ToldAt, Told
<1> QED
    BY <1>3, <1>4, <1>5 DEF RightAt, Whole

\* insert_or_assign of new items.
LEMMA WithItemsIsRight ==
    ASSUME Labeled, NEW d, GoodDb(d), Right(d), ~d.stripped, NEW data \in Seq(Datum),
           \A j \in DOMAIN data : data[j].item \notin d.hashed_items /\ data[j].label \in Labels
    PROVE  Right(WithItems(d, data))
<1> DEFINE new == FirstsOf(data)
           runs == RunTasks(d.bundles, "insert", new)
           left == [idx \in BundleIdx |-> runs[idx].set]
           w == WithItems(d, data)
           place(i) == CHOOSE j \in DOMAIN new : new[j].item = i
<1>1. /\ new \in Seq(Datum)
      /\ \A j, m \in DOMAIN new : new[j].item = new[m].item => j = m
      /\ \A j \in DOMAIN new : \E k \in DOMAIN data : new[j] = data[k]
    BY FirstsDiffer
<1>2. DOMAIN d = DbFields /\ Counted(d)
    BY DEF GoodDb
<1>3. /\ w.stripped = d.stripped /\ w.doubt = DoubtAfter(d, {})
      /\ w.bundles = GenerateCaches(left)
      /\ w.content = [i \in Items |-> IF \E j \in DOMAIN new : new[j].item = i
                                      THEN new[place(i)].label ELSE d.content[i]]
    BY <1>2 DEF WithItems, DbFields
<1>4. \A j \in DOMAIN new : new[j].item \in Items /\ new[j].label \in Labels
                              /\ new[j].item \notin d.hashed_items
    <2>1. \A j \in DOMAIN new : new[j] \in Datum
        BY <1>1
    <2> HIDE DEF new
    <2> QED
        BY <1>1, <2>1 DEF Datum
<1> HIDE DEF w
<1>5. \A j \in DOMAIN new : d.content[new[j].item] = Absent /\ w.content[new[j].item] = new[j].label
    <2> SUFFICES ASSUME NEW j \in DOMAIN new
                 PROVE  d.content[new[j].item] = Absent /\ w.content[new[j].item] = new[j].label
        OBVIOUS
    <2> DEFINE i == new[j].item
    <2>1. i \in Items /\ i \notin Present(d.content)
        BY <1>2, <1>4 DEF Counted
    <2>2. place(i) \in DOMAIN new /\ new[place(i)].item = i
        OBVIOUS
    <2>3. w.content[i] = new[place(i)].label
        BY <1>3, <2>1
    <2>4. place(i) = j
        <3> HIDE DEF place, new
        <3> QED
            BY <1>1, <2>2
    <2> HIDE DEF place, new
    <2> QED
        BY <2>1, <2>3, <2>4 DEF Present
<1>6. \A i \in Items : (\A j \in DOMAIN new : new[j].item # i) => w.content[i] = d.content[i]
    BY <1>3
<1>7. SUFFICES ASSUME w.doubt # Items, NEW idx \in BundleIdx
               PROVE  RightAt(Views(w.bundles[idx]), idx, w.doubt, w.content) /\ Whole(w.bundles[idx])
    BY Zenon DEF Right, w
<1>8. ~d.garbled /\ w.doubt = d.doubt /\ d.doubt # Items
    BY <1>3, <1>7 DEF DoubtAfter
<1>9. left[idx] = RunTask(d.bundles[idx], "insert", TaskOf(new, idx)).set
    BY DEF RunTasks
<1> HIDE DEF left, new, runs
<1>10. Whole(left[idx]) /\ RightAt(Views(left[idx]), idx, d.doubt, w.content)
    <2> DEFINE content2 == w.content
    <2>1. /\ \A j \in DOMAIN new : new[j].label \in Labels
          /\ \A j \in DOMAIN new : d.content[new[j].item] = Absent /\ content2[new[j].item] = new[j].label
          /\ \A i \in Items : (\A j \in DOMAIN new : new[j].item # i) => content2[i] = d.content[i]
        BY <1>4, <1>5, <1>6
    <2> HIDE DEF content2
    <2> DEFINE out == RunTask(d.bundles[idx], "insert", TaskOf(new, idx)).set
    <2>2. Whole(out) /\ RightAt(Views(out), idx, d.doubt, content2)
        BY <1>1, <1>8, <2>1, InsertedAt, Zenon
    <2> QED
        BY <1>9, <2>2, Zenon DEF content2
<1>11. /\ Views(GenerateCaches(left)[idx]) = Views(left[idx])
       /\ Whole(left[idx]) => Whole(GenerateCaches(left)[idx])
    BY RegenKeepsViews, Zenon
<1>12. w.bundles[idx] = GenerateCaches(left)[idx]
    BY <1>3
<1> QED
    BY <1>8, <1>10, <1>11, <1>12, Zenon

\* strip()
LEMMA StrippedIsRight ==
    ASSUME NEW d, GoodDb(d), Right(d) PROVE Right(Stripped(d))
<1> DEFINE w == Stripped(d)
<1>1. DOMAIN d = DbFields /\ Counted(d)
    BY DEF GoodDb
<1>2. /\ w.stripped = TRUE /\ w.content = d.content /\ w.doubt = d.doubt
      /\ w.bundles = [idx \in BundleIdx |->
                        [j \in DOMAIN d.bundles[idx] |-> StripBundle(d.bundles[idx][j])]]
    BY <1>1 DEF Stripped, DbFields
<1> HIDE DEF w
<1>3. SUFFICES ASSUME w.doubt # Items, NEW idx \in BundleIdx
               PROVE  RightAt(Views(w.bundles[idx]), idx, w.doubt, w.content)
    BY <1>2, Zenon DEF Right, w
<1>4. Views(w.bundles[idx]) = Views(d.bundles[idx])
    <2>1. w.bundles[idx] = [j \in DOMAIN d.bundles[idx] |-> StripBundle(d.bundles[idx][j])]
        BY <1>2
    <2>2. \A j \in DOMAIN d.bundles[idx] : View(StripBundle(d.bundles[idx][j])) = View(d.bundles[idx][j])
        BY StripKeepsView
    <2> QED
        BY <2>1, <2>2 DEF Views
<1>5. RightAt(Views(d.bundles[idx]), idx, d.doubt, d.content)
    BY <1>2, <1>3 DEF Right
<1> QED
    BY <1>2, <1>4, <1>5, Zenon

\* What remove() of i makes of a database, when the tasks in `lost' do nothing.
AfterRemoval(d, i, data, lost) ==
    LET runs == RunTasks(d.bundles, "remove", data)
        left == [idx \in BundleIdx |-> IF idx \in lost THEN d.bundles[idx] ELSE runs[idx].set]
    IN  [d EXCEPT !.hashed_items = d.hashed_items \ {i}, !.item_count = d.item_count - 1,
                  !.bundles = IF {idx \in BundleIdx : runs[idx].threw} = {} THEN GenerateCaches(left) ELSE left,
                  !.content = [d.content EXCEPT ![i] = Absent],
                  !.doubt = DoubtAfter(d, IF lost = {} THEN {} ELSE {i})]

\* The database after a removal is one that AfterRemoval describes.
LEMMA RemovalIs ==
    ASSUME NEW i, NEW items, Removal(i, items)
    PROVE  \E lost \in SUBSET BundleIdx :
              db' = AfterRemoval(db, i, [j \in DOMAIN items |-> [item |-> items[j], label |-> NoLabel]], lost)
BY DEF Removal, AfterRemoval

\* remove(), with what remove_if leaves to the tasks: the item, and perhaps
\* one that is not there.
LEMMA RemovalIsRight ==
    ASSUME Labeled, ItemsApart, GoodDb(db), Right(db), ~db.stripped, NEW i \in db.hashed_items,
           NEW items \in Seq(Items), items # <<>>, items[1] = i,
           \A j \in DOMAIN items : items[j] = i \/ items[j] \notin db.hashed_items, Removal(i, items)
    PROVE  Right(db')
<1> DEFINE data == [j \in DOMAIN items |-> [item |-> items[j], label |-> NoLabel]]
           runs == RunTasks(db.bundles, "remove", data)
           threw == {idx \in BundleIdx : runs[idx].threw}
<1>1. data \in Seq(Datum) /\ data # <<>> /\ data[1].item = i /\ DOMAIN data = DOMAIN items
    <2>1. Len(items) \in Nat /\ DOMAIN items = 1 .. Len(items) /\ \A j \in DOMAIN items : items[j] \in Items
        OBVIOUS
    <2>2. data \in [1 .. Len(items) -> Datum]
        BY <2>1 DEF Datum
    <2>3. 1 \in DOMAIN items
        BY <2>1
    <2>4. data[1].item = i /\ DOMAIN data = DOMAIN items
        BY <2>3
    <2> HIDE DEF data
    <2> QED
        BY <2>1, <2>2, <2>3, <2>4, TupleIsSeq
<1>2. DOMAIN db = DbFields /\ Counted(db)
    BY DEF GoodDb
<1>3. i \in Present(db.content) /\ i \in Items /\ db.content[i] # Absent /\ DOMAIN db.content = Items
    BY <1>2 DEF Counted, Present
<1>4. \A j \in DOMAIN data : data[j].item = i \/ db.content[data[j].item] = Absent
    <2>1. \A j \in DOMAIN items : items[j] \in Items /\ (items[j] = i \/ items[j] \notin Present(db.content))
        BY <1>2 DEF Counted
    <2> QED
        BY <2>1 DEF Present
<1>5. PICK lost \in SUBSET BundleIdx : db' = AfterRemoval(db, i, data, lost)
    BY RemovalIs, Zenon
<1> DEFINE left == [idx \in BundleIdx |-> IF idx \in lost THEN db.bundles[idx] ELSE runs[idx].set]
           less == [db.content EXCEPT ![i] = Absent]
<1>6. /\ db'.stripped = db.stripped /\ db'.content = less
      /\ db'.doubt = DoubtAfter(db, IF lost = {} THEN {} ELSE {i})
      /\ db'.bundles = GenerateCaches(left) \/ db'.bundles = left
    <2> DEFINE doubt == DoubtAfter(db, IF lost = {} THEN {} ELSE {i})
    <2>1. db' = [db EXCEPT !.hashed_items = db.hashed_items \ {i}, !.item_count = db.item_count - 1,
                           !.bundles = IF threw = {} THEN GenerateCaches(left) ELSE left,
                           !.content = less, !.doubt = doubt]
        BY <1>5 DEF AfterRemoval
    <2> HIDE DEF runs, threw, left, less, doubt
    <2>2. /\ db'.stripped = db.stripped /\ db'.content = less /\ db'.doubt = doubt
          /\ db'.bundles = (IF threw = {} THEN GenerateCaches(left) ELSE left)
        BY <1>2, <2>1 DEF DbFields
    <2> QED
        BY <2>2 DEF doubt
<1> HIDE DEF data
<1>7. PICK w : w = db'
    OBVIOUS
<1>8. SUFFICES ASSUME w.doubt # Items, NEW idx \in BundleIdx
               PROVE  RightAt(Views(w.bundles[idx]), idx, w.doubt, w.content) /\ Whole(w.bundles[idx])
    <2>1. Right(w)
        BY <1>8, Zenon DEF Right
    <2> QED
        BY <1>7, <2>1
<1>9. /\ ~db.garbled /\ db.doubt # Items
      /\ w.doubt = db.doubt \cup (IF lost = {} THEN {} ELSE {i})
    BY <1>3, <1>6, <1>7, <1>8 DEF DoubtAfter
<1>10. Whole(left[idx]) /\ RightAt(Views(left[idx]), idx, w.doubt, less)
    <2>1. CASE idx \in lost
        <3>1. left[idx] = db.bundles[idx]
            BY <2>1
        <3>2. RightAt(Views(db.bundles[idx]), idx, db.doubt, db.content) /\ Whole(db.bundles[idx])
            BY <1>9 DEF Right
        <3>3. w.doubt = db.doubt \cup {i}
            BY <1>9, <2>1
        <3>4. \A o \in Items \ w.doubt : o \in Items \ db.doubt /\ less[o] = db.content[o]
            BY <1>3, <3>3
        <3> HIDE DEF less, left
        <3>5. RightAt(Views(db.bundles[idx]), idx, w.doubt, less)
            BY <3>2, <3>4 DEF RightAt
        <3> QED
            BY <3>1, <3>2, <3>5, Zenon
    <2>2. CASE idx \notin lost
        <3>1. left[idx] = RunTask(db.bundles[idx], "remove", TaskOf(data, idx)).set
            BY <2>2 DEF RunTasks
        <3>2. Whole(left[idx]) /\ RightAt(Views(left[idx]), idx, db.doubt, less)
            <4> HIDE DEF left
            <4> QED
                BY <1>1, <1>3, <1>4, <1>9, <3>1, RemovedAt
        <3>3. Items \ w.doubt \subseteq Items \ db.doubt
            BY <1>9
        <3> HIDE DEF less, left
        <3>4. RightAt(Views(left[idx]), idx, w.doubt, less)
            BY <3>2, <3>3 DEF RightAt
        <3> QED
            BY <3>2, <3>4
    <2> QED
        BY <2>1, <2>2
<1> HIDE DEF left, less
<1>11. w.content = less /\ (w.bundles = GenerateCaches(left) \/ w.bundles = left)
    BY <1>6, <1>7
<1>12. /\ Views(GenerateCaches(left)[idx]) = Views(left[idx])
       /\ Whole(left[idx]) => Whole(GenerateCaches(left)[idx])
    BY RegenKeepsViews, Zenon
<1>13. Views(w.bundles[idx]) = Views(left[idx]) /\ Whole(w.bundles[idx])
    BY <1>10, <1>11, <1>12
<1> QED
    BY <1>10, <1>11, <1>13, Zenon

\* Where the bundles that save() writes come from: every bundle is written
\* once, beside its bundle index.
SavedFrom(d, w, at, pos) ==
    LET parts == 2 .. BundlesIn(d.bundles) + 1
    IN  /\ \A m \in parts :
             /\ at[m] \in BundleIdx /\ pos[m] \in DOMAIN d.bundles[at[m]]
             /\ w[m] = SaveBundle(d.bundles[at[m]][pos[m]], at[m])
        /\ \A m, n \in parts : at[m] = at[n] /\ pos[m] = pos[n] => m = n
        /\ \A idx \in BundleIdx : \A j \in DOMAIN d.bundles[idx] :
             \E m \in parts : at[m] = idx /\ pos[m] = j

\* The parts a save writes are the bundles of all indices strung together.
LEMMA SavedComesFrom ==
    ASSUME NEW d, GoodDb(d)
    PROVE  \E at, pos : SavedFrom(d, SavedParts(d), at, pos)
<1> DEFINE w == SavedParts(d)
           c == BundlesIn(d.bundles)
           N == BundleIdxCount
           p == [n \in 0 .. N |-> IF n = 0 THEN <<Header(d)>> ELSE PartsFor(d, n)]
<1>1. PICK upTo : SavedUpTo(d, upTo)
    BY SavedPartsAre
<1>2. IsSeq(w) /\ Len(w) = c + 1 /\ c \in Nat /\ DOMAIN w = 1 .. c + 1
    BY SavedPartsAre, IsSeqFacts
<1>3. N \in Nat /\ \A n \in 1 .. N : n \in 0 .. N /\ n # 0 /\ n - 1 \in BundleIdx
    BY BundleSetAssumption DEF BundleIdx
<1>4. \A idx \in BundleIdx : idx + 1 \in 1 .. N /\ (idx + 1) - 1 = idx
    BY BundleSetAssumption DEF BundleIdx
<1>5. p[0] = <<Header(d)>> /\ \A n \in 1 .. N : p[n] = PartsFor(d, n)
    <2> HIDE DEF N
    <2> QED
        BY <1>3
<1> HIDE DEF p, w, c
<1>6. Strung(w, p, 0 .. N)
    <2> DEFINE S == {n \in 0 .. N : Strung(upTo[n], p, 0 .. n)}
    <2> HIDE DEF N
    <2>1. 0 \in S
        <3>1. IsSeq(p[0]) /\ upTo[0] = p[0]
            BY <1>1, <1>5 DEF SavedUpTo, IsSeq
        <3> QED
            BY <1>3, <3>1, OnePart
    <2>2. ASSUME NEW n \in 1 .. N, n - 1 \in S PROVE n \in S
        <3>1. Strung(upTo[n - 1], p, 0 .. n - 1)
            BY <2>2
        <3>2. upTo[n] = upTo[n - 1] \o p[n] /\ IsSeq(p[n])
            BY <1>1, <1>5 DEF SavedUpTo, N
        <3>3. n - 1 \in Nat /\ 0 \in Nat /\ 0 <= (n - 1) + 1 /\ (n - 1) + 1 = n
            BY <1>3
        <3>4. Strung(upTo[n - 1] \o p[n], p, 0 .. n)
            <4> DEFINE l == n - 1
            <4>1. l \in Nat /\ l + 1 = n /\ 0 <= l + 1 /\ Strung(upTo[l], p, 0 .. l)
                BY <3>1, <3>3
            <4> HIDE DEF l
            <4>2. Strung(upTo[l] \o p[l + 1], p, 0 .. l + 1)
                BY <3>2, <4>1, PartMore
            <4> QED
                BY <4>1, <4>2 DEF l
        <3> QED
            BY <1>3, <3>2, <3>4
    <2>3. 0 .. N \subseteq S
        <3> HIDE DEF S
        <3> QED
            BY <1>3, <2>1, <2>2, UpTo
    <2>4. upTo[N] = w
        BY <1>1 DEF SavedUpTo, w, N
    <2> QED
        BY <1>3, <2>3, <2>4
<1>7. PICK who, pos : ComesFrom(w, p, 0 .. N, who, pos)
    BY <1>6 DEF Strung
<1> DEFINE at == [m \in 2 .. c + 1 |-> who[m] - 1]
<1>8. 1 \in DOMAIN w /\ who[1] = 0 /\ pos[1] = 1
    <2>1. DOMAIN p[0] = {1} /\ 0 \in 0 .. N
        BY <1>3, <1>5
    <2>2. PICK x \in DOMAIN w : who[x] = 0 /\ pos[x] = 1
        BY <1>7, <2>1 DEF ComesFrom
    <2>3. 1 \in DOMAIN w /\ (x = 1 \/ 1 < x)
        BY <1>2
    <2>4. who[1] \in 0 .. N /\ pos[1] \in DOMAIN p[who[1]] /\ who[1] <= 0
        BY <1>2, <1>7, <2>2, <2>3 DEF ComesFrom
    <2>5. who[1] = 0
        BY <2>4
    <2> QED
        BY <2>1, <2>3, <2>4, <2>5
<1>9. ASSUME NEW m \in 2 .. c + 1
      PROVE  /\ at[m] \in BundleIdx /\ who[m] = at[m] + 1 /\ pos[m] \in DOMAIN d.bundles[at[m]]
             /\ w[m] = SaveBundle(d.bundles[at[m]][pos[m]], at[m])
    <2>1. m \in DOMAIN w /\ m # 1
        BY <1>2
    <2>2. who[m] \in 0 .. N /\ pos[m] \in DOMAIN p[who[m]] /\ w[m] = p[who[m]][pos[m]]
        BY <1>7, <2>1 DEF ComesFrom
    <2>3. who[m] # 0
        <3>1. SUFFICES ASSUME who[m] = 0 PROVE FALSE
            OBVIOUS
        <3>2. pos[m] = 1
            BY <1>5, <2>2, <3>1
        <3> QED
            BY <1>7, <1>8, <2>1, <3>1, <3>2 DEF ComesFrom
    <2>4. who[m] \in 1 .. N /\ at[m] = who[m] - 1
        BY <1>3, <2>2, <2>3
    <2>5. p[who[m]] = PartsFor(d, who[m])
        BY <1>5, <2>4
    <2>6. at[m] \in BundleIdx /\ who[m] = at[m] + 1
        BY <1>3, <2>4
    <2> HIDE DEF at
    <2> QED
        BY <2>2, <2>4, <2>5, <2>6 DEF PartsFor
<1> HIDE DEF at
<1>10. ASSUME NEW m \in 2 .. c + 1, NEW n \in 2 .. c + 1, at[m] = at[n], pos[m] = pos[n] PROVE m = n
    <2>1. m \in DOMAIN w /\ n \in DOMAIN w
        BY <1>2
    <2> QED
        BY <1>7, <1>9, <1>10, <2>1 DEF ComesFrom
<1>11. ASSUME NEW idx \in BundleIdx, NEW j \in DOMAIN d.bundles[idx]
       PROVE  \E m \in 2 .. c + 1 : at[m] = idx /\ pos[m] = j
    <2>1. idx + 1 \in 1 .. N /\ idx + 1 \in 0 .. N /\ (idx + 1) - 1 = idx /\ idx \in Int /\ idx + 1 # 0
        BY <1>3, <1>4 DEF BundleIdx
    <2>2. DOMAIN p[idx + 1] = DOMAIN d.bundles[idx]
        BY <1>5, <2>1 DEF PartsFor
    <2>3. PICK m \in DOMAIN w : who[m] = idx + 1 /\ pos[m] = j
        BY <1>7, <2>1, <2>2 DEF ComesFrom
    <2>4. m \in 2 .. c + 1
        BY <1>2, <1>8, <2>1, <2>3
    <2>5. at[m] = idx
        BY <1>9, <2>1, <2>3, <2>4 DEF BundleIdx
    <2> QED
        BY <2>3, <2>4, <2>5
<1> QED
    BY <1>9, <1>10, <1>11 DEF SavedFrom, w, c

\* What a saved bundle will show once it is loaded.
PartView(p) == IF p.cache = NoCache THEN p.item_bins ELSE p.cache.content

\* The parts of a file that hold bundles of an index, and what they show.
PartsAt(q, idx) == {n \in 2 .. q[1].bin_bundle_count + 1 : q[n].bundle_idx = idx}
PartViews(q, idx) == [n \in PartsAt(q, idx) |-> PartView(q[n])]

\* What a file that is complete holds is right.
RightParts(q) ==
    q # <<>> /\ Len(q) > q[1].bin_bundle_count /\ q[1].doubt # Items =>
        \A idx \in BundleIdx :
            /\ RightAt(PartViews(q, idx), idx, q[1].doubt, q[1].content)
            /\ ~q[1].stripped => \A n \in PartsAt(q, idx) : ~q[n].stripped

\* A bundle is saved with what it shows.
LEMMA SaveKeepsView ==
    ASSUME NEW b, NEW idx
    PROVE  LET p == SaveBundle(b, idx)
           IN  PartView(p) = View(b) /\ p.bundle_idx = idx /\ p.stripped = b.stripped
<1> DEFINE p == SaveBundle(b, idx)
<1>1. /\ p.bundle_idx = idx /\ p.stripped = b.stripped /\ p.item_bins = b.bins
      /\ p.cache = IF b.cache_invalid THEN NoCache ELSE SavedCache(b)
    BY DEF SaveBundle
<1>2. SavedCache(b).content = b.cache /\ SavedCache(b) # NoCache
    <2>1. "content" \in DOMAIN SavedCache(b) /\ SavedCache(b).content = b.cache
        BY DEF SavedCache
    <2>2. "content" \notin DOMAIN NoCache
        BY DEF NoCache
    <2> QED
        BY <2>1, <2>2
<1> HIDE DEF p
<1>3. PartView(p) = View(b)
    BY <1>1, <1>2 DEF PartView, View
<1> QED
    BY <1>1, <1>3 DEF p

\* What save() writes of a database that is right is right, whatever follows it.
LEMMA SavedIsRight ==
    ASSUME NEW d, GoodDb(d), Right(d), NEW rest, IsSeq(rest)
    PROVE  RightParts(SavedParts(d) \o rest)
<1> DEFINE w == SavedParts(d)
           q == w \o rest
           c == BundlesIn(d.bundles)
<1>1. PICK at, pos : SavedFrom(d, w, at, pos)
    BY SavedComesFrom
<1>2. IsSeq(w) /\ Len(w) = c + 1 /\ c \in Nat /\ w[1] = Header(d) /\ DOMAIN w = 1 .. c + 1
    BY SavedPartsAre, IsSeqFacts
<1>3. q[1] = Header(d) /\ \A m \in 2 .. c + 1 : q[m] = w[m]
    <2>1. \A m \in DOMAIN w : q[m] = w[m]
        BY <1>2, ConcatSeqs, Zenon
    <2> HIDE DEF w, q, c
    <2>2. 1 \in 1 .. c + 1 /\ \A m \in 2 .. c + 1 : m \in 1 .. c + 1
        BY <1>2
    <2> QED
        BY <1>2, <2>1, <2>2
<1>4. /\ q[1].bin_bundle_count = c /\ q[1].stripped = d.stripped
      /\ q[1].content = d.content /\ q[1].doubt = d.doubt
    BY <1>3 DEF Header
<1> HIDE DEF q, w
<1>5. SUFFICES ASSUME q[1].doubt # Items, NEW idx \in BundleIdx
               PROVE  /\ RightAt(PartViews(q, idx), idx, q[1].doubt, q[1].content)
                      /\ ~q[1].stripped => \A n \in PartsAt(q, idx) : ~q[n].stripped
    BY Zenon DEF RightParts, q, w
<1> DEFINE V == Views(d.bundles[idx])
           W == PartViews(q, idx)
           h == [n \in PartsAt(q, idx) |-> pos[n]]
<1>6. \A m \in 2 .. c + 1 :
        /\ at[m] \in BundleIdx /\ pos[m] \in DOMAIN d.bundles[at[m]]
        /\ q[m].bundle_idx = at[m] /\ PartView(q[m]) = View(d.bundles[at[m]][pos[m]])
        /\ q[m].stripped = d.bundles[at[m]][pos[m]].stripped
    BY <1>1, <1>3, SaveKeepsView DEF SavedFrom
<1>7. PartsAt(q, idx) = {m \in 2 .. c + 1 : at[m] = idx}
    BY <1>4, <1>6 DEF PartsAt
<1>8. DOMAIN V = DOMAIN d.bundles[idx] /\ DOMAIN W = PartsAt(q, idx)
    BY DEF Views, PartViews
<1>9. \A n \in PartsAt(q, idx) :
        h[n] = pos[n] /\ pos[n] \in DOMAIN V /\ W[n] = V[pos[n]] /\ n \in 2 .. c + 1 /\ at[n] = idx
    BY <1>6, <1>7, <1>8 DEF Views, PartViews
<1>10. \A j \in DOMAIN V : \E n \in PartsAt(q, idx) : pos[n] = j
    BY <1>1, <1>7, <1>8 DEF SavedFrom
<1>11. \A m, n \in PartsAt(q, idx) : pos[m] = pos[n] => m = n
    BY <1>1, <1>9 DEF SavedFrom
<1>12. h \in [PartsAt(q, idx) -> DOMAIN V]
    BY <1>9
<1> HIDE DEF V, W, h, c
<1>13. Rearranged(V, W, h)
    BY <1>8, <1>9, <1>10, <1>11, <1>12 DEF Rearranged
<1>14. RightAt(V, idx, d.doubt, d.content) /\ (~d.stripped => Whole(d.bundles[idx]))
    BY <1>4, <1>5 DEF Right, V
<1>15. RightAt(W, idx, d.doubt, d.content)
    BY <1>13, <1>14, RightThere, Zenon
<1>16. ~q[1].stripped => \A n \in PartsAt(q, idx) : ~q[n].stripped
    BY <1>4, <1>6, <1>9, <1>14 DEF Whole
<1> QED
    BY <1>4, <1>15, <1>16, Zenon DEF W

\* A file that a save has begun, as far as it goes: what is right when the
\* rest is there is right.
LEMMA PrefixIsRight ==
    ASSUME NEW s, IsSeq(s), NEW t, IsSeq(t), RightParts(s \o t), s # <<>> => s[1].bin_bundle_count \in Nat
    PROVE  RightParts(s)
<1> DEFINE q == s \o t
<1>1. /\ DOMAIN s = 1 .. Len(s) /\ Len(s) \in Nat /\ Len(t) \in Nat
      /\ DOMAIN q = 1 .. Len(s) + Len(t) /\ IsSeq(q) /\ Len(q) = Len(s) + Len(t)
      /\ \A i \in DOMAIN s : q[i] = s[i]
    BY IsSeqFacts, ConcatSeqs
<1>2. RightParts(q)
    OBVIOUS
<1> HIDE DEF q
<1>3. SUFFICES ASSUME s # <<>>, Len(s) > s[1].bin_bundle_count, s[1].doubt # Items, NEW idx \in BundleIdx
               PROVE  /\ RightAt(PartViews(s, idx), idx, s[1].doubt, s[1].content)
                      /\ ~s[1].stripped => \A n \in PartsAt(s, idx) : ~s[n].stripped
    BY Zenon DEF RightParts
<1> DEFINE c == s[1].bin_bundle_count
<1>4. 1 \in DOMAIN s /\ q[1] = s[1] /\ c \in Nat
    <2>1. c \in Nat /\ Len(s) > c
        BY <1>3
    <2> HIDE DEF c
    <2>2. 1 \in DOMAIN s
        BY <1>1, <2>1
    <2> QED
        BY <1>1, <2>1, <2>2
<1>5. q # <<>> /\ Len(q) > q[1].bin_bundle_count
    BY <1>1, <1>3, <1>4
<1>6. \A n \in 2 .. c + 1 : q[n] = s[n]
    <2>1. Len(s) > c
        BY <1>3
    <2> HIDE DEF c
    <2>2. \A n \in 2 .. c + 1 : n \in DOMAIN s
        BY <1>1, <1>4, <2>1
    <2> QED
        BY <1>1, <2>2
<1>7. PartsAt(q, idx) = PartsAt(s, idx) /\ \A n \in PartsAt(s, idx) : q[n] = s[n]
    BY <1>4, <1>6 DEF PartsAt
<1>8. PartViews(q, idx) = PartViews(s, idx)
    BY <1>7 DEF PartViews
<1>9. /\ RightAt(PartViews(q, idx), idx, q[1].doubt, q[1].content)
      /\ ~q[1].stripped => \A n \in PartsAt(q, idx) : ~q[n].stripped
    BY <1>2, <1>3, <1>4, <1>5 DEF RightParts
<1> QED
    BY <1>4, <1>7, <1>8, <1>9

\* A part that loads shows what it was saved with, unless a cut is hidden in it
\* and it has no cache.
LEMMA LoadKeepsView ==
    ASSUME NEW f, NEW n \in BundleParts(f), NEW exact, GoodPart(f.parts[n], exact),
           BundleAcceptable(ReadPart(f, n)), n \in Hidden(f) => f.parts[n].cache # NoCache
    PROVE  LET b == LoadBundle(ReadPart(f, n))
           IN  View(b) = PartView(f.parts[n]) /\ b.stripped = f.parts[n].stripped
<1> DEFINE p == f.parts[n]
           r == ReadPart(f, n)
           b == LoadBundle(r)
<1>1. /\ r.stripped = p.stripped /\ r.cache = p.cache
      /\ p.cache # NoCache \/ r.item_bins = p.item_bins
    <2>1. CASE r = p
        BY <2>1
    <2>2. CASE r # p
        <3>1. p.cache # NoCache
            BY <2>2 DEF Hidden
        <3>2. r = ZeroFilled(p)
            BY <2>2 DEF ReadPart
        <3>3. DOMAIN p = {"part", "bundle_idx", "item_bins", "stripped", "cache"}
            <4> HIDE DEF p
            <4>1. p = [part |-> "bundle", bundle_idx |-> p.bundle_idx, item_bins |-> p.item_bins,
                       stripped |-> p.stripped, cache |-> p.cache]
                BY DEF GoodPart, p
            <4> QED
                BY <4>1
        <3> HIDE DEF p, r
        <3>4. r.stripped = p.stripped /\ r.cache = p.cache
            BY <3>2, <3>3 DEF ZeroFilled
        <3> QED
            BY <3>1, <3>4
    <2> QED
        BY <2>1, <2>2
<1>2. r.stripped => r.cache # NoCache
    BY DEF BundleAcceptable
<1> HIDE DEF r, p
<1>3. /\ b.stripped = r.stripped
      /\ r.cache = NoCache => b.cache_invalid /\ b.bins = IF r.stripped THEN <<>> ELSE r.item_bins
      /\ r.cache # NoCache => ~b.cache_invalid /\ b.cache = r.cache.content
    BY DEF LoadBundle
<1> HIDE DEF b
<1>4. CASE r.cache = NoCache
    <2>1. View(b) = p.item_bins
        BY <1>1, <1>2, <1>3, <1>4 DEF View
    <2> QED
        BY <1>1, <1>3, <1>4, <2>1 DEF PartView, b, p, r
<1>5. CASE r.cache # NoCache
    <2>1. View(b) = p.cache.content
        BY <1>1, <1>3, <1>5 DEF View
    <2> QED
        BY <1>1, <1>3, <1>5, <2>1 DEF PartView, b, p, r
<1> QED
    BY <1>4, <1>5

\* What loads from a file that is right is right, in whatever order the
\* bundles come.
LEMMA LoadedIsRight ==
    ASSUME NEW f, GoodParts(f.parts), RightParts(f.parts), NEW strict, LoadAccepts(f, strict),
           NEW bundles \in LoadedBundles(f)
    PROVE  Right(Loaded(f, bundles))
<1> DEFINE q == f.parts
           h == q[1]
           c == h.bin_bundle_count
           d == Loaded(f, bundles)
           partsAt(idx) == {n \in BundleParts(f) : f.parts[n].bundle_idx = idx}
           raw(o, idx) == [j \in DOMAIN o[idx] |-> LoadBundle(ReadPart(f, o[idx][j]))]
<1>1. 1 \in DOMAIN q /\ GoodHeader(h) /\ q # <<>>
    BY DEF LoadAccepts, Readable, GoodParts
<1>2. c \in Nat /\ BundleParts(f) = 2 .. c + 1
    BY <1>1 DEF GoodHeader, BundleParts
<1>3. \A n \in BundleParts(f) : n \in DOMAIN q /\ BundleAcceptable(ReadPart(f, n))
    BY DEF LoadAccepts, Readable
<1>4. Len(q) > c
    <2>1. Len(q) \in Nat /\ DOMAIN q = 1 .. Len(q)
        BY IsSeqFacts DEF GoodParts
    <2>2. \A n \in 2 .. c + 1 : n \in DOMAIN q
        BY <1>2, <1>3
    <2> HIDE DEF c, q
    <2> QED
        BY <1>1, <1>2, <2>1, <2>2
<1>5. \A n \in BundleParts(f) : GoodPart(q[n], ~h.garbled)
    BY <1>1, <1>2, <1>3 DEF GoodParts
<1>6. /\ d.bundles = bundles /\ d.stripped = h.stripped /\ d.content = h.content
      /\ d.doubt = IF \E n \in Hidden(f) : q[n].cache = NoCache THEN Items ELSE h.doubt
    BY DEF Loaded
<1>7. PICK o : /\ \A idx \in BundleIdx : o[idx] \in SetToSeqs(partsAt(idx))
               /\ bundles = GenerateCaches([idx \in BundleIdx |-> raw(o, idx)])
    BY DEF LoadedBundles
<1> HIDE DEF d
<1>8. SUFFICES ASSUME d.doubt # Items, NEW idx \in BundleIdx
               PROVE  /\ RightAt(Views(d.bundles[idx]), idx, d.doubt, d.content)
                      /\ ~d.stripped => Whole(d.bundles[idx])
    BY Zenon DEF Right, d
<1>9. h.doubt # Items /\ d.doubt = h.doubt /\ \A n \in Hidden(f) : q[n].cache # NoCache
    BY <1>6, <1>8
<1>10. /\ RightAt(PartViews(q, idx), idx, h.doubt, h.content)
       /\ ~h.stripped => \A n \in PartsAt(q, idx) : ~q[n].stripped
    BY <1>1, <1>4, <1>9 DEF RightParts
<1> HIDE DEF q, h
<1>11. partsAt(idx) = PartsAt(q, idx) /\ PartsAt(q, idx) \subseteq BundleParts(f)
    BY <1>2 DEF PartsAt, h, q
<1> DEFINE K == PartsAt(q, idx)
           s == o[idx]
           set == raw(o, idx)
           W == Views(set)
           V == PartViews(q, idx)
<1>12. /\ IsFiniteSet(K) /\ s \in [1 .. Cardinality(K) -> K]
       /\ \A m, n \in 1 .. Cardinality(K) : s[m] = s[n] => m = n
    <2>1. IsFiniteSet(BundleParts(f))
        BY <1>2, FS_Interval
    <2>2. IsFiniteSet(K)
        BY <1>11, <2>1, FS_Subset, Zenon
    <2>3. s \in SetToSeqs(K)
        BY <1>7, <1>11
    <2> HIDE DEF K, s
    <2> QED
        BY <2>2, <2>3 DEF SetToSeqs
<1>13. ASSUME NEW n \in K
       PROVE  View(LoadBundle(ReadPart(f, n))) = PartView(q[n]) /\ LoadBundle(ReadPart(f, n)).stripped = q[n].stripped
    <2>1. n \in BundleParts(f)
        BY <1>11
    <2>2. GoodPart(f.parts[n], ~h.garbled) /\ BundleAcceptable(ReadPart(f, n))
          /\ (n \in Hidden(f) => f.parts[n].cache # NoCache)
        BY <1>3, <1>5, <1>9, <2>1 DEF q
    <2> QED
        BY <2>1, <2>2, LoadKeepsView, Zenon DEF q
<1>14. DOMAIN W = DOMAIN s /\ DOMAIN set = DOMAIN s /\ DOMAIN V = K
    BY DEF Views, PartViews
<1>15. \A j \in DOMAIN s : /\ s[j] \in K /\ W[j] = V[s[j]]
                           /\ set[j].stripped = q[s[j]].stripped
    <2>1. ASSUME NEW j \in DOMAIN s PROVE s[j] \in K
        BY <1>12, <2>1
    <2>2. ASSUME NEW j \in DOMAIN s PROVE set[j] = LoadBundle(ReadPart(f, s[j])) /\ W[j] = View(set[j])
        BY <2>2 DEF Views
    <2>3. \A n \in K : V[n] = PartView(q[n])
        BY DEF PartViews
    <2> HIDE DEF set, W, V, s, K
    <2> QED
        BY <1>13, <2>1, <2>2, <2>3
<1> HIDE DEF K, W, V
<1>16. Rearranged(V, W, s)
    <2>1. \A k \in K : \E m \in 1 .. Cardinality(K) : s[m] = k
        BY <1>12, OneToOne, Zenon
    <2>2. DOMAIN s = 1 .. Cardinality(K)
        BY <1>12
    <2> HIDE DEF s, set
    <2> QED
        BY <1>12, <1>14, <1>15, <2>1, <2>2 DEF Rearranged
<1>17. RightAt(W, idx, h.doubt, h.content)
    BY <1>10, <1>16, RightThere, Zenon DEF V
<1>18. ~h.stripped => Whole(set)
    <2> HIDE DEF s, set
    <2> QED
        BY <1>10, <1>14, <1>15 DEF Whole, K
<1>19. /\ Views(d.bundles[idx]) = W
       /\ Whole(set) => Whole(d.bundles[idx])
    <2> DEFINE bb == [i \in BundleIdx |-> raw(o, i)]
    <2>1. bb[idx] = set
        OBVIOUS
    <2>2. d.bundles = GenerateCaches(bb)
        BY <1>6, <1>7
    <2> HIDE DEF bb, set
    <2>3. Views(GenerateCaches(bb)[idx]) = Views(bb[idx]) /\ (Whole(bb[idx]) => Whole(GenerateCaches(bb)[idx]))
        BY RegenKeepsViews, Zenon
    <2> QED
        BY <2>1, <2>2, <2>3, Zenon DEF W
<1> QED
    BY <1>6, <1>9, <1>17, <1>18, <1>19

\* The inductive invariant: the database in memory is right, what every file
\* holds is, and so will be what a save is writing.
FilesRight == \A p \in Paths : files[p].kind = "sdb" => RightParts(files[p].parts)
DbRight == db # NoDB => Right(db)
SaveRight == phase = "save" => RightParts(files[cmd.out_file].parts \o todo)
RightInv == FilesRight /\ DbRight /\ SaveRight

\* An empty file is not complete.
LEMMA NothingIsRight == RightParts(<<>>)
BY DEF RightParts

\* Each action keeps RightInv.
LEMMA InitIsRight == Init => RightInv
<1> SUFFICES ASSUME Init PROVE RightInv
    OBVIOUS
<1>1. PICK rows \in CsvRows, p \in Paths :
         files = [q \in Paths |-> IF q = p THEN CsvFile(rows) ELSE NoFile]
    BY DEF Init
<1>2. \A q \in Paths : files[q].kind # "sdb"
    <2>1. CsvFile(rows).kind # "sdb" /\ NoFile.kind # "sdb"
        BY DEF CsvFile, NoFile
    <2> QED
        BY <1>1, <2>1
<1> QED
    BY <1>2 DEF Init, RightInv, FilesRight, DbRight, SaveRight

\* The process ends: only the files matter.
LEMMA DownIsRight == ASSUME FilesRight', Down PROVE RightInv'
BY DEF Down, RightInv, DbRight, SaveRight

LEMMA StartsAreRight == ASSUME SavedInv, RightInv, StartSender \/ StartProgram PROVE RightInv'
<1>1. FilesRight' /\ db = NoDB
    BY DEF SavedInv, DbInv, RightInv, FilesRight, StartSender, StartProgram
<1>2. CASE StartSender
    BY <1>1, <1>2 DEF StartSender, RightInv, DbRight, SaveRight
<1>3. CASE StartProgram
    <2>1. (phase' = "ready" /\ db' = SenderDBRecord(keys_made + 1)) \/ (phase' = "load" /\ db' = db)
        BY <1>3 DEF StartProgram
    <2>2. DbRight'
        BY <1>1, <2>1, RecordIsRight DEF DbRight
    <2> QED
        BY <1>1, <2>1, <2>2 DEF RightInv, SaveRight
<1> QED
    BY <1>2, <1>3

LEMMA LoadFailsIsRight == ASSUME SavedInv, RightInv, LoadFails PROVE RightInv'
<1>1. FilesRight'
    BY DEF RightInv, FilesRight, LoadFails, Stay
<1>2. CASE cmd.mode = "sender"
    BY <1>1, <1>2 DEF LoadFails, RightInv, DbRight, SaveRight
<1>3. CASE cmd.mode # "sender"
    BY <1>1, <1>3, DownIsRight, Zenon DEF LoadFails
<1> QED
    BY <1>2, <1>3

LEMMA LoadSucceedsIsRight == ASSUME SavedInv, RightInv, LoadSucceeds PROVE RightInv'
<1>1. FilesRight'
    BY DEF RightInv, FilesRight, LoadSucceeds, Stay
<1>2. LoadAccepts(File, cmd.strict) /\ GoodFile(File) /\ cmd.db_file \in Paths
    BY DEF LoadSucceeds, SavedInv, CmdInv, FilesInv, File
<1>3. GoodParts(File.parts) /\ RightParts(File.parts)
    <2>1. File.kind = "sdb"
        BY <1>2 DEF LoadAccepts
    <2>2. RightParts(File.parts)
        BY <1>2, <2>1 DEF RightInv, FilesRight, File
    <2> QED
        BY <1>2, <2>1, <2>2, SdbIsGood
<1>4. PICK bundles \in LoadedBundles(File) : db' = Loaded(File, bundles)
    BY DEF LoadSucceeds
<1>5. Right(Loaded(File, bundles))
    BY <1>2, <1>3, LoadedIsRight, Zenon
<1>6. Right(db')
    BY <1>4, <1>5, Zenon
<1>7. phase' # "save"
    BY DEF LoadSucceeds
<1> QED
    BY <1>1, <1>6, <1>7 DEF RightInv, DbRight, SaveRight

LEMMA LoadCsvIsRight == ASSUME Labeled, SavedInv, RightInv, LoadCsv PROVE RightInv'
<1>1. FilesRight' /\ GoodFile(File)
    BY DEF SavedInv, FilesInv, CmdInv, LoadCsv, File, RightInv, FilesRight
<1>2. CASE Down
    BY <1>1, <1>2, DownIsRight
<1>3. CASE /\ db' = CreateSenderDB(RowsOf(File)) /\ phase' = "made"
    <2> DEFINE rows == RowsOf(File)
               d == SenderDBRecord(keys_made + 1)
    <2>1. rows \in Seq(Datum) /\ \A j \in DOMAIN rows : rows[j].label \in Labels
        <3>1. CASE File.kind = "csv"
            <4>1. File # NoFile /\ \A q, cut : File # SdbFile(q, cut)
                BY <3>1 DEF NoFile, SdbFile
            <4>2. PICK r \in CsvRows : File = CsvFile(r)
                BY <1>1, <4>1, Zenon DEF GoodFile
            <4>3. rows = r
                BY <4>2 DEF RowsOf, CsvFile
            <4> QED
                BY <4>3, SavedDBAssumption
        <3>2. CASE File.kind # "csv"
            BY <3>2 DEF RowsOf
        <3> QED
            BY <3>1, <3>2
    <2>2. GoodDb(d) /\ ~d.stripped /\ Right(d)
        BY RecordIsGood, RecordIsRight
    <2>3. \A j \in DOMAIN rows : rows[j].item \notin d.hashed_items /\ rows[j].label \in Labels
        <3>1. d.hashed_items = {}
            BY DEF SenderDBRecord
        <3> HIDE DEF rows, d
        <3> QED
            BY <2>1, <3>1
    <2> HIDE DEF rows, d
    <2>4. GoodDb(WithItems(d, rows)) /\ Right(WithItems(d, rows))
        BY <2>1, <2>2, <2>3, WithItemsIsGood, WithItemsIsRight
    <2>5. Right(Stripped(WithItems(d, rows)))
        BY <2>4, StrippedIsRight, Zenon
    <2>6. Right(db')
        BY <1>3, <2>5, Zenon DEF CreateSenderDB, rows, d
    <2> QED
        BY <1>1, <1>3, <2>6 DEF RightInv, DbRight, SaveRight
<1> QED
    BY <1>2, <1>3 DEF LoadCsv

LEMMA SaveBeginIsRight == ASSUME SavedInv, RightInv, SaveBegin PROVE RightInv'
<1> DEFINE out == cmd.out_file
           rest == IF cmd.mode = "sender" THEN <<KeyPart(oprf_key)>> ELSE <<>>
<1>1. /\ phase \in {"made", "ready"} /\ phase' = "save" /\ cmd' = cmd /\ db' = db
      /\ files' = [files EXCEPT ![out] = SdbFile(<<>>, "no")]
      /\ todo' = SavedParts(db) \o rest
    BY DEF SaveBegin
<1>2. out \in Paths /\ DOMAIN files = Paths
    BY DEF SaveBegin, SavedInv, CmdInv, FilesInv
<1>3. GoodDb(db) /\ Right(db)
    <2>1. GoodDb(db)
        BY <1>1 DEF SavedInv, DbInv
    <2> QED
        BY <2>1, GoodIsDb DEF RightInv, DbRight
<1>4. IsSeq(rest)
    <2>1. IsSeq(<<>>)
        BY DEF IsSeq
    <2>2. IsSeq(<<KeyPart(oprf_key)>>)
        <3> DEFINE k == KeyPart(oprf_key)
        <3> HIDE DEF k
        <3>1. <<k>> \in Seq({<<k>>[i] : i \in DOMAIN <<k>>})
            OBVIOUS
        <3> QED
            BY <3>1, Zenon DEF IsSeq, k
    <2> QED
        BY <2>1, <2>2, Zenon
<1> HIDE DEF rest, out
<1>5. RightParts(todo') /\ IsSeq(todo')
    <2>1. RightParts(SavedParts(db) \o rest)
        BY <1>3, <1>4, SavedIsRight, Zenon
    <2>2. WholeDb(SavedParts(db) \o rest)
        BY <1>3, <1>4, SavedIsWhole, Zenon
    <2> QED
        BY <1>1, <2>1, <2>2, Zenon DEF WholeDb, GoodParts
<1>6. <<>> \o todo' = todo'
    BY <1>5, EmptyIsUnit, Zenon
<1>7. files'[out] = SdbFile(<<>>, "no") /\ files'[out].parts = <<>>
    BY <1>1, <1>2, SdbFields
<1>8. FilesRight'
    <2>1. \A p \in Paths : p # out => files'[p] = files[p]
        BY <1>1, <1>2
    <2> QED
        BY <1>7, <2>1, NothingIsRight DEF RightInv, FilesRight
<1>9. SaveRight'
    <2>1. RightParts(files'[out].parts \o todo')
        BY <1>5, <1>6, <1>7, Zenon
    <2> QED
        BY <1>1, <2>1, Zenon DEF SaveRight, out
<1>10. DbRight'
    BY <1>1, <1>3 DEF DbRight
<1> QED
    BY <1>8, <1>9, <1>10 DEF RightInv

\* One more part of what a save has still to write.
LEMMA OnePartMoreIsRight ==
    ASSUME NEW q, IsSeq(q), NEW t, IsSeq(t), t # <<>>, WholeDb(q \o t), RightParts(q \o t), GoodParts(q)
    PROVE  /\ RightParts(Append(q, Head(t)))
           /\ RightParts(Append(q, Head(t)) \o Tail(t))
<1> DEFINE s == Append(q, Head(t))
           u == Tail(t)
<1>1. IsSeq(s) /\ IsSeq(u) /\ s \o u = q \o t
    BY MoveHead, Zenon
<1>2. GoodParts(s)
    BY OnePartMore, Zenon
<1> HIDE DEF s, u
<1>3. s # <<>> => s[1].bin_bundle_count \in Nat
    BY <1>2 DEF GoodParts, GoodHeader
<1>4. RightParts(s \o u)
    BY <1>1, Zenon
<1>5. RightParts(s)
    BY <1>1, <1>3, <1>4, PrefixIsRight, Zenon
<1> QED
    BY <1>4, <1>5 DEF s, u

LEMMA SavePartIsRight == ASSUME SavedInv, RightInv, SavePart PROVE RightInv'
<1> DEFINE out == cmd.out_file
           f == files[out]
           q == f.parts
           more == Append(q, Head(todo))
<1>1. /\ phase = "save" /\ cmd' = cmd /\ db' = db /\ todo # <<>>
      /\ files' = [files EXCEPT ![out].parts = more] /\ todo' = Tail(todo)
    BY DEF SavePart
<1>2. out \in Paths /\ DOMAIN files = Paths
    BY <1>1 DEF SavedInv, CmdInv, FilesInv
<1>3. f = SdbFile(q, "no") /\ IsSeq(todo) /\ WholeDb(q \o todo) /\ RightParts(q \o todo)
    BY <1>1 DEF SavedInv, SaveInv, RightInv, SaveRight
<1>4. GoodParts(q) /\ IsSeq(q)
    <2>1. f.kind = "sdb" /\ GoodFile(f)
        BY <1>2, <1>3, SdbFields DEF SavedInv, FilesInv
    <2> QED
        BY <2>1, SdbIsGood DEF GoodParts
<1> HIDE DEF q
<1>5. RightParts(more) /\ RightParts(more \o Tail(todo))
    BY <1>1, <1>3, <1>4, OnePartMoreIsRight, Zenon
<1> HIDE DEF more
<1>6. files' = [files EXCEPT ![out] = SdbFile(more, "no")]
    <2>1. [f EXCEPT !.parts = more] = SdbFile(more, "no")
        BY <1>3 DEF SdbFile
    <2> QED
        BY <1>1, <1>2, <2>1
<1> HIDE DEF f, out
<1>7. files'[out] = SdbFile(more, "no") /\ files'[out].parts = more
    BY <1>2, <1>6, SdbFields
<1>8. FilesRight'
    <2>1. \A p \in Paths : p # out => files'[p] = files[p]
        BY <1>2, <1>6
    <2> QED
        BY <1>5, <1>7, <2>1 DEF RightInv, FilesRight
<1>9. SaveRight'
    <2>1. RightParts(files'[out].parts \o todo')
        BY <1>1, <1>5, <1>7, Zenon
    <2> QED
        BY <1>1, <2>1, Zenon DEF SaveRight, out
<1>10. DbRight'
    BY <1>1, Zenon DEF RightInv, DbRight
<1> QED
    BY <1>8, <1>9, <1>10 DEF RightInv

LEMMA ServeIsRight == ASSUME SavedInv, RightInv, Serve PROVE RightInv'
<1>1. FilesRight'
    BY DEF RightInv, FilesRight, Serve, Stay
<1>2. CASE db.stripped
    BY <1>1, <1>2 DEF Serve, RightInv, DbRight, SaveRight
<1>3. CASE ~db.stripped
    BY <1>1, <1>3, DownIsRight, Zenon DEF Serve
<1> QED
    BY <1>2, <1>3

LEMMA CrashIsRight == ASSUME SavedInv, RightInv, Crash PROVE RightInv'
<1>1. CASE UNCHANGED files
    BY <1>1, DownIsRight DEF Crash, RightInv, FilesRight
<1>2. CASE phase = "save" /\ todo # <<>> /\ files' # files
    <2> DEFINE out == cmd.out_file
               q == files[out].parts
               more == Append(q, Head(todo))
    <2>1. PICK cut \in {"early", "late"} : files' = [files EXCEPT ![out] = SdbFile(more, cut)]
        BY <1>2 DEF Crash
    <2>2. out \in Paths /\ DOMAIN files = Paths
        BY <1>2 DEF SavedInv, CmdInv, FilesInv
    <2>3. files[out] = SdbFile(q, "no") /\ IsSeq(todo) /\ WholeDb(q \o todo) /\ RightParts(q \o todo)
        BY <1>2 DEF SavedInv, SaveInv, RightInv, SaveRight
    <2>4. GoodParts(q) /\ IsSeq(q)
        <3>1. files[out].kind = "sdb" /\ GoodFile(files[out])
            BY <2>2, <2>3, SdbFields DEF SavedInv, FilesInv
        <3> QED
            BY <3>1, SdbIsGood DEF GoodParts
    <2> HIDE DEF q
    <2>5. RightParts(more)
        BY <1>2, <2>3, <2>4, OnePartMoreIsRight, Zenon
    <2> HIDE DEF more, out
    <2>6. files'[out].parts = more /\ \A p \in Paths : p # out => files'[p] = files[p]
        BY <2>1, <2>2, SdbFields
    <2>7. FilesRight'
        BY <2>5, <2>6 DEF RightInv, FilesRight
    <2> QED
        BY <2>7, DownIsRight DEF Crash
<1> QED
    BY <1>1, <1>2 DEF Crash

\* A program changes what it has created or loaded; the files stay.
LEMMA ChangeIsRight ==
    ASSUME SavedInv, RightInv, Change, files' = files, phase' = phase, Right(db')
    PROVE  RightInv'
<1>1. FilesRight' /\ phase' = "ready"
    BY DEF RightInv, FilesRight, Change
<1> QED
    BY <1>1 DEF RightInv, DbRight, SaveRight

LEMMA ReadyIsRight == ASSUME SavedInv, RightInv, Change PROVE GoodDb(db) /\ ~db.stripped /\ Right(db)
BY ReadyIsGood, GoodIsDb DEF RightInv, DbRight

LEMMA StripsRight == ASSUME SavedInv, RightInv, Strip PROVE RightInv'
<1>1. Right(db')
    BY ReadyIsRight, StrippedIsRight, Zenon DEF Strip
<1> QED
    BY <1>1, ChangeIsRight DEF Strip

\* The changes are operations on tasks.
LEMMA InsertNewIsRight ==
    ASSUME Labeled, SavedInv, RightInv, NEW data \in Batches, InsertNew(data) PROVE RightInv'
<1>1. data \in Seq(Datum) /\ \A j \in DOMAIN data : data[j].label \in Labels
    BY SavedDBAssumption
<1>2. GoodDb(db) /\ ~db.stripped /\ Right(db)
    BY ReadyIsRight DEF InsertNew
<1>3. \A j \in DOMAIN data : data[j].item \notin db.hashed_items /\ data[j].label \in Labels
    BY <1>1 DEF InsertNew
<1>4. Right(WithItems(db, data))
    BY <1>1, <1>2, <1>3, WithItemsIsRight
<1>5. Right(db')
    BY <1>4, Zenon DEF InsertNew
<1> QED
    BY <1>5, ChangeIsRight DEF InsertNew, Quietly

LEMMA RemovesRight ==
    ASSUME Labeled, ItemsApart, SavedInv, RightInv, NEW i, NEW items \in Seq(Items), items # <<>>, items[1] = i,
           \A j \in DOMAIN items : items[j] = i \/ items[j] \notin db.hashed_items, Removal(i, items)
    PROVE  RightInv'
<1>1. Change /\ i \in db.hashed_items /\ Quietly
    BY DEF Removal
<1>2. GoodDb(db) /\ ~db.stripped /\ Right(db)
    BY <1>1, ReadyIsRight
<1>3. Right(db')
    BY <1>1, <1>2, RemovalIsRight, Zenon
<1> QED
    BY <1>1, <1>3, ChangeIsRight DEF Quietly

LEMMA StepIsRight == ASSUME Labeled, ItemsApart PROVE SavedInv /\ RightInv /\ [Next]_vars => RightInv'
<1> SUFFICES ASSUME SavedInv, RightInv, [Next]_vars PROVE RightInv'
    OBVIOUS
<1>1. CASE StartSender   BY <1>1, StartsAreRight
<1>2. CASE StartProgram  BY <1>2, StartsAreRight
<1>3. CASE LoadFails     BY <1>3, LoadFailsIsRight
<1>4. CASE LoadSucceeds  BY <1>4, LoadSucceedsIsRight
<1>5. CASE LoadCsv       BY <1>5, LoadCsvIsRight
<1>6. CASE SaveBegin     BY <1>6, SaveBeginIsRight
<1>7. CASE SavePart      BY <1>7, SavePartIsRight
<1>8. CASE Serve         BY <1>8, ServeIsRight
<1>9. CASE ProgramEnds
    <2>1. FilesRight' /\ Down
        BY <1>9 DEF ProgramEnds, Stay, RightInv, FilesRight
    <2> QED
        BY <2>1, DownIsRight
<1>10. CASE Crash        BY <1>10, CrashIsRight
<1>11. CASE Strip        BY <1>11, StripsRight
<1>12. ASSUME NEW data \in Batches, InsertNew(data) PROVE RightInv'
    BY <1>12, InsertNewIsRight
<1>13. ASSUME NEW i \in Items, RemoveOne(i) PROVE RightInv'
    <2> DEFINE items == <<i>>
    <2>1. /\ items \in Seq(Items) /\ items # <<>> /\ items[1] = i
          /\ \A j \in DOMAIN items : items[j] = i \/ items[j] \notin db.hashed_items
        OBVIOUS
    <2>2. Removal(i, items)
        BY <1>13 DEF RemoveOne
    <2> HIDE DEF items
    <2> QED
        BY <2>1, <2>2, RemovesRight, Zenon
<1>14. ASSUME NEW i \in Items, NEW j \in Items, RemoveTwo(i, j) PROVE RightInv'
    <2> DEFINE items == <<i, j>>
    <2>1. Removal(i, items) /\ (j = i \/ j \notin db.hashed_items)
        BY <1>14 DEF RemoveTwo
    <2>2. /\ items \in Seq(Items) /\ items # <<>> /\ items[1] = i
          /\ \A m \in DOMAIN items : items[m] = i \/ items[m] \notin db.hashed_items
        BY <2>1
    <2> HIDE DEF items
    <2> QED
        BY <2>1, <2>2, RemovesRight, Zenon
<1>15. CASE UNCHANGED vars
    BY <1>15, Zenon DEF vars, RightInv, FilesRight, DbRight, SaveRight
<1> QED
    BY <1>1, <1>2, <1>3, <1>4, <1>5, <1>6, <1>7, <1>8, <1>9, <1>10, <1>11, <1>12, <1>13, <1>14, <1>15
    DEF Next

\* What a query reads.
CachesOf(set) == [j \in DOMAIN set |-> set[j].cache]

\* The caches of the bundles at a location answer with c when they are asked
\* for an item.
Answering(set, E, i, loc, c) ==
    /\ \A j \in DOMAIN set :
          SoundBins(set[j].cache, BundleOf(loc)) /\ \A k \in BinIdx : GoodBin(set[j].cache[k], E)
    /\ Told(CachesOf(set), i, BinOf(loc), c)

\* What a query finds at a location: nothing, or one bundle with label c.
Tells(bb, i, loc, c) ==
    IF c = Absent THEN MatchesAt(bb, i, loc) = {}
    ELSE /\ c \in Labels /\ Cardinality(MatchesAt(bb, i, loc)) = 1 /\ MatchesAt(bb, i, loc) # {}
         /\ LabelPartsAt(bb, i, loc) = {<<i, c>>}

\* The bundles that match are those that hold the item.
LEMMA MatchesAre ==
    ASSUME Labeled, ItemsApart, NEW bb, NEW E, NEW i \in Items, NEW loc \in ToSet(ItemLocs[i]), NEW c,
           Answering(bb[BundleOf(loc)], E, i, loc, c)
    PROVE  Tells(bb, i, loc, c)
<1> DEFINE idx == BundleOf(loc)
           set == bb[idx]
           s == BinOf(loc)
           V == CachesOf(set)
           d == [item |-> i, label |-> NoLabel]
           M == MatchesAt(bb, i, loc)
<1>1. s \in Starts /\ Lies(i, s, idx)
    BY LocOfItem, PlaceOf DEF Lies
<1>2. d \in Datum /\ Probe(i) = Algebraize(d) /\ d.item = i
    BY DEF Datum, Probe
<1>3. DOMAIN V = DOMAIN set /\ \A j \in DOMAIN set : V[j] = set[j].cache
    BY DEF CachesOf
<1>4. M = {j \in DOMAIN set : Holds(set[j].cache, Probe(i), s)}
    BY DEF MatchesAt
<1>5. LabelPartsAt(bb, i, loc) = UNION {ToSet(MultiGetLabel(set[j].cache, Probe(i), s)) : j \in M}
    BY DEF LabelPartsAt
<1> HIDE DEF d, s, set, V, M, idx
<1>6. /\ \A j \in DOMAIN set : SoundBins(set[j].cache, idx) /\ \A k \in BinIdx : GoodBin(set[j].cache[k], E)
      /\ Told(V, i, s, c)
    BY Zenon DEF Answering, set, V, s, idx
<1>7. ASSUME NEW j \in DOMAIN set
      PROVE  j \in M <=> \E l \in Labels : RowAt(V, j, i, l, s)
    <2>1. SoundBins(V[j], idx) /\ \A k \in BinIdx : IsSeq(V[j][k])
        BY <1>3, <1>6 DEF GoodBin
    <2>2. Holds(V[j], Algebraize(d), s) <=> \E l \in Labels : RowOf(d.item, l, s) \in RowsIn(V[j])
        BY <1>1, <1>2, <2>1, HoldsRow
    <2>3. j \in M <=> Holds(V[j], Algebraize(d), s)
        BY <1>2, <1>3, <1>4
    <2> QED
        BY <1>2, <2>2, <2>3 DEF RowAt
<1>8. M \subseteq DOMAIN set
    BY <1>4
<1>9. CASE c = Absent
    <2>1. \A j \in DOMAIN set, l \in Labels : ~RowAt(V, j, i, l, s)
        BY <1>3, <1>6, <1>9 DEF Told
    <2>2. M = {}
        BY <1>7, <1>8, <2>1
    <2> QED
        BY <1>9, <2>2 DEF M, Tells
<1>10. CASE c # Absent
    <2>1. PICK j \in DOMAIN set : /\ RowAt(V, j, i, c, s)
                                  /\ \A k \in DOMAIN set, l \in Labels : RowAt(V, k, i, l, s) => k = j /\ l = c
        BY <1>3, <1>6, <1>10 DEF Told
    <2>2. c \in Labels
        BY <1>6, <1>10 DEF Told
    <2>3. M = {j}
        BY <1>7, <1>8, <2>1, <2>2
    <2>4. Cardinality(M) = 1
        BY <2>3, FS_Singleton
    <2>5. ToSet(MultiGetLabel(V[j], Probe(i), s)) = {<<i, c>>}
        <3>1. \A k \in BinIdx : GoodBin(V[j][k], E)
            BY <1>3, <1>6
        <3>2. RowOf(i, c, s) \in RowsIn(V[j])
            BY <2>1 DEF RowAt
        <3> QED
            BY <1>1, <3>1, <3>2, LabelOfRow
    <2>6. LabelPartsAt(bb, i, loc) = {<<i, c>>}
        BY <1>3, <1>5, <2>3, <2>5
    <2> QED
        BY <1>10, <2>2, <2>3, <2>4, <2>6 DEF M, Tells
<1> QED
    BY <1>9, <1>10

\* When every location of an item tells the same, that is the answer.
LEMMA AnswerIs ==
    ASSUME Labeled, ItemsApart, NEW bb, NEW E, NEW i \in Items, NEW c,
           \A loc \in ToSet(ItemLocs[i]) : Answering(bb[BundleOf(loc)], E, i, loc, c)
    PROVE  AnswerFor(bb, i) = c
<1> DEFINE locs == ToSet(ItemLocs[i])
           all == UNION {LabelPartsAt(bb, i, loc) : loc \in locs}
           clean == {l \in Labels : all = {<<i, l>>}}
<1>1. locs # {} /\ \A loc \in locs : loc \in Nat
    <2>1. ItemLocs[i] \in Seq(Nat) /\ ItemLocs[i] # <<>>
        BY BundleSetAssumption, RowsAssumption
    <2>2. 1 \in DOMAIN ItemLocs[i]
        BY <2>1
    <2>3. \A m \in DOMAIN ItemLocs[i] : ItemLocs[i][m] \in Nat /\ ItemLocs[i][m] \in locs
        BY <2>1 DEF ToSet
    <2>4. \A loc \in locs : \E m \in DOMAIN ItemLocs[i] : loc = ItemLocs[i][m]
        BY DEF ToSet
    <2> HIDE DEF locs
    <2> QED
        BY <2>2, <2>3, <2>4
<1>2. AnswerFor(bb, i) =
        IF \A loc \in locs : MatchesAt(bb, i, loc) = {} THEN Absent
        ELSE IF \E loc \in locs : Cardinality(MatchesAt(bb, i, loc)) # 1 THEN Garbled
        ELSE IF ~Labeled THEN NoLabel
        ELSE IF clean = {} THEN Garbled ELSE CHOOSE l \in clean : TRUE
    BY DEF AnswerFor
<1>3. \A loc \in locs : Tells(bb, i, loc, c)
    BY <1>1, MatchesAre, Zenon
<1> HIDE DEF locs
<1>4. CASE c = Absent
    <2>1. \A loc \in locs : MatchesAt(bb, i, loc) = {}
        BY <1>3, <1>4 DEF Tells
    <2> HIDE DEF all, clean
    <2> QED
        BY <1>2, <1>4, <2>1
<1>5. CASE c # Absent
    <2>1. PICK loc \in locs : TRUE
        BY <1>1
    <2>2. c \in Labels /\ all = {<<i, c>>}
        BY <1>3, <1>5, <2>1 DEF Tells
    <2> HIDE DEF all
    <2>3. clean = {c}
        <3>1. ASSUME NEW l, all = {<<i, l>>} PROVE l = c
            <4>1. {<<i, l>>} = {<<i, c>>}
                BY <2>2, <3>1
            <4>2. <<i, l>> = <<i, c>>
                BY <4>1, Zenon
            <4> QED
                BY <4>2
        <3> QED
            BY <2>2, <3>1
    <2>4. (CHOOSE l \in clean : TRUE) = c /\ clean # {}
        BY <2>3
    <2>5. /\ ~ \A l \in locs : MatchesAt(bb, i, l) = {}
          /\ ~ \E l \in locs : Cardinality(MatchesAt(bb, i, l)) # 1
        BY <1>3, <1>5, <2>1 DEF Tells
    <2> HIDE DEF clean
    <2>6. AnswerFor(bb, i) = CHOOSE l \in clean : TRUE
        BY <1>2, <2>4, <2>5, Zenon
    <2> QED
        BY <2>4, <2>6
<1> QED
    BY <1>4, <1>5

\* All locations of an item without doubt tell its label, so the answer is that.
LEMMA InvAnswers == ASSUME Labeled, ItemsApart PROVE SavedInv /\ RightInv => AnswersSurvive
<1> SUFFICES ASSUME SavedInv, RightInv, db # NoDB, ~Stale(db), NEW i \in Items \ db.doubt
             PROVE  AnswerFor(db.bundles, i) = db.content[i]
    BY DEF AnswersSurvive
<1>1. GoodDb(db) /\ Right(db) /\ db.doubt # Items
    BY DEF SavedInv, CmdInv, DbInv, RightInv, DbRight
<1>2. ASSUME NEW loc \in ToSet(ItemLocs[i])
      PROVE  Answering(db.bundles[BundleOf(loc)], SavedEntry, i, loc, db.content[i])
    <2> DEFINE idx == BundleOf(loc)
               set == db.bundles[idx]
               V == Views(set)
    <2>1. idx \in BundleIdx
        BY LocationsAssumption
    <2>2. RightAt(V, idx, db.doubt, db.content)
        BY <1>1, <2>1 DEF Right
    <2>3. GoodSet(set, SavedEntry, TRUE, ~db.garbled)
        BY <1>1, <2>1 DEF GoodDb
    <2>4. \A j \in DOMAIN set : ~set[j].cache_invalid
        BY <2>1 DEF Stale, Bundles, ToSet
    <2>5. Told(V, i, BinOf(loc), db.content[i])
        BY <2>2 DEF RightAt, ToldAt
    <2> HIDE DEF set, idx
    <2>6. V = CachesOf(set)
        BY <2>4 DEF Views, View, CachesOf
    <2>7. \A j \in DOMAIN set : SoundBins(set[j].cache, idx)
        BY <2>2, <2>6 DEF RightAt, CachesOf
    <2>8. \A j \in DOMAIN set : \A k \in BinIdx : GoodBin(set[j].cache[k], SavedEntry)
        BY <2>3, Zenon DEF GoodSet, GoodBundle
    <2> QED
        BY <2>5, <2>6, <2>7, <2>8, Zenon DEF Answering, set, idx
<1> QED
    BY <1>1, <1>2, AnswerIs

\* Whatever was loaded, by however many processes and in whatever order the
\* bundles came, and changed since, in a labeled database whose items cannot be
\* put together from one another: the caches answer with the content that the
\* calls have built (SenderDB::Load, sender_db.cpp:1240).
THEOREM AnswersAlwaysSurvive == ASSUME Labeled, ItemsApart PROVE Spec => []AnswersSurvive
<1>1. Init => RightInv
    BY InitIsRight
<1>2. SavedInv /\ RightInv /\ [Next]_vars => RightInv'
    BY StepIsRight
<1>3. SavedInv /\ RightInv => AnswersSurvive
    BY InvAnswers
<1> QED
    BY <1>1, <1>2, <1>3, AlwaysSaved, PTL DEF Spec

==============================================================================
