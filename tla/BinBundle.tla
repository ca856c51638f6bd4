----------------------------- MODULE BinBundle -----------------------------
(***************************************************************************)
(* The BinBundle (sender/apsi/bin_bundle.cpp): num_bins bins of field      *)
(* elements, each with the label part stored beside it, and the cache of   *)
(* polynomials that queries evaluate.  The operations are pure operators   *)
(* on a bundle record; SenderDB applies them under its lock.               *)
(*                                                                         *)
(* What is abstracted: a field element is a model value; the label parts   *)
(* of one felt are one value; the cached polynomials of a bin are the      *)
(* roots and label values they interpolate, i.e. a copy of the bin; the    *)
(* cuckoo filter in front of a bin denies no felt the bin holds (it does   *)
(* not as long as add() is not refused), and the bin is searched for those *)
(* it lets through.                                                        *)
(***************************************************************************)
EXTENDS Naturals, Sequences, SequencesExt

CONSTANTS NumBins,      \* bins per bundle (bins_per_bundle)
          MaxBinSize,   \* max_items_per_bin
          Labeled       \* TRUE when label_size_ > 0

ASSUME BinBundleAssumption ==
    /\ NumBins \in Nat \ {0}
    /\ MaxBinSize \in Nat \ {0}
    /\ Labeled \in BOOLEAN

BinIdx == 0 .. NumBins - 1

\* An algebraized item is a sequence of [felt, label] pairs, one per bin.

EmptyBins == [k \in BinIdx |-> <<>>]

\* A fresh bundle: clear() and clear_cache() leave the cache invalid.
NewBundle == [bins |-> EmptyBins, cache |-> EmptyBins,
              cache_invalid |-> TRUE, stripped |-> FALSE]

\* The bins that data written from bin start on would occupy.
Covered(data, start) == start .. start + Len(data) - 1

Fits(data, start) == data # <<>> /\ Covered(data, start) \subseteq BinIdx

\* First position of a felt in a bin, 0 when it is not there (get_iterator).
FeltPos(bin, felt) == SelectInSeq(bin, LAMBDA e : e.felt = felt)

FeltAt(data, start, k) == data[k - start + 1].felt

\* Every felt of data is present in its bin.  The test is made bin by bin:
\* nothing ties the felts found to one inserted item.
Holds(bins, data, start) ==
    /\ Fits(data, start)
    /\ \A k \in Covered(data, start) : FeltPos(bins[k], FeltAt(data, start, k)) > 0

\* Bug variant: the test for felts already present is left out.
Bug_DryRunNoPresenceTest(b, data, start) ==
    IF ~Fits(data, start) THEN 0
    ELSE Max({Len(b.bins[k]) + 1 : k \in Covered(data, start)})

\* multi_insert_dry_run: the size the largest bin would have, or 0 (the
\* code's -1) when the data cannot go here.
MultiInsertDryRun(b, data, start) ==
    IF \/ ~Fits(data, start)
       \/ Labeled /\ \E k \in Covered(data, start) :
                        FeltPos(b.bins[k], FeltAt(data, start, k)) > 0
    THEN 0
    ELSE Max({Len(b.bins[k]) + 1 : k \in Covered(data, start)})

MultiInsertForReal(b, data, start) ==
    [b EXCEPT !.bins = [k \in BinIdx |-> IF k \in Covered(data, start)
                                         THEN Append(b.bins[k], data[k - start + 1])
                                         ELSE b.bins[k]],
              !.cache_invalid = TRUE]

\* Bug variant: the new label is written but the cache stays valid.
Bug_OverwriteKeepsCache(b, data, start) ==
    [b EXCEPT !.bins = [k \in BinIdx |->
                          IF k \in Covered(data, start) /\ Labeled
                          THEN ReplaceAt(b.bins[k], FeltPos(b.bins[k], FeltAt(data, start, k)),
                                         data[k - start + 1])
                          ELSE b.bins[k]]]

\* try_multi_overwrite once Holds is known.  Unlabeled data has nothing to
\* overwrite, but the cache is marked dirty all the same.
MultiOverwrite(b, data, start) ==
    [b EXCEPT !.bins = [k \in BinIdx |->
                          IF k \in Covered(data, start) /\ Labeled
                          THEN ReplaceAt(b.bins[k], FeltPos(b.bins[k], FeltAt(data, start, k)),
                                         data[k - start + 1])
                          ELSE b.bins[k]],
              !.cache_invalid = TRUE]

\* try_multi_remove once Holds is known: the first copy of each felt goes.
MultiRemove(b, data, start) ==
    [b EXCEPT !.bins = [k \in BinIdx |->
                          IF k \in Covered(data, start)
                          THEN RemoveAt(b.bins[k], FeltPos(b.bins[k], FeltAt(data, start, k)))
                          ELSE b.bins[k]],
              !.cache_invalid = TRUE]

\* try_get_multi_label once Holds is known: the label part of every felt.
MultiGetLabel(bins, data, start) ==
    [j \in DOMAIN data |-> LET bin == bins[start + j - 1]
                           IN  bin[FeltPos(bin, data[j].felt)].label]

Empty(b) == \A k \in DOMAIN b.bins : b.bins[k] = <<>>

\* Bug variant: the cache is regenerated before the bins it is made from are
\* complete, i.e. declared valid without the new content.
Bug_RegenKeepsContent(b) == [b EXCEPT !.cache_invalid = FALSE]

RegenCache(b) ==
    IF b.cache_invalid
    THEN [bins |-> b.bins, cache |-> b.bins, cache_invalid |-> FALSE, stripped |-> b.stripped]
    ELSE b

\* strip(): make the cache valid, then drop everything a query does not use.
StripBundle(b) == [bins |-> <<>>, cache |-> RegenCache(b).cache,
                   cache_invalid |-> RegenCache(b).cache_invalid, stripped |-> TRUE]
=============================================================================
