---------------------------- MODULE CuckooFilter ----------------------------
(***************************************************************************)
(* The cuckoo filter of one bin (sender/apsi/util/cuckoo_filter.cpp,       *)
(* cuckoo_filter_table.cpp) as BinBundle uses it: every felt pushed into   *)
(* the bin is added, and is removed when it leaves the bin; a look-up that *)
(* the filter denies is not made in the bin at all.                        *)
(*                                                                         *)
(* A felt is stored as a tag in one of two buckets.  When both are full a  *)
(* tag is kicked out at random and moved to its other bucket, and so on    *)
(* until there is room; the tag without a place after MaxKicks turns goes  *)
(* to the overflow slot.  One turn of that loop is one step.  How slots    *)
(* are packed into words is left out.                                      *)
(***************************************************************************)
EXTENDS Integers, FiniteSets

CONSTANTS Felts,
          Hash,           \* felt -> its 64 hash bits, from which index and tag come
          TagHash,        \* tag -> the hash bits of the tag
          BitXor,            \* <<i, j>> -> i XOR j, of numbers below NumBuckets
          KeyCountMax,    \* key_count_max, the max_bin_size of the BinBundle
          BitsPerTag,     \* 12 in a BinBundle
          TagsPerBucket,  \* tags_per_bucket_ (4)
          MaxKicks        \* max_cuckoo_kicks_ (1000)

\* The least power of two that is not below v; 1 for 0.
NextPowerOf2(v) ==
    CHOOSE p \in {2 ^ k : k \in 0 .. v} : p >= v /\ \A k \in 0 .. v : 2 ^ k >= v => p <= 2 ^ k

\* One bucket per TagsPerBucket keys, and twice as many if that leaves less
\* than 4 percent of the slots free.
NumBuckets ==
    LET keys == KeyCountMax \div TagsPerBucket
        n == NextPowerOf2(IF keys < 1 THEN 1 ELSE keys)
    IN  IF 100 * KeyCountMax > 96 * n * TagsPerBucket THEN 2 * n ELSE n

Buckets == 0 .. NumBuckets - 1
Slots   == 1 .. TagsPerBucket
NoTag   == 0
TagValues == 2 ^ BitsPerTag
Tags    == 1 .. TagValues - 1

ASSUME CuckooFilterAssumption ==
    /\ KeyCountMax \in Nat /\ TagsPerBucket \in Nat \ {0} /\ MaxKicks \in Nat \ {0}
    /\ IsFiniteSet(Felts) /\ BitsPerTag \in 1 .. 63
    /\ TagValues \in Nat /\ TagValues > 1 /\ NumBuckets \in Nat \ {0}
    /\ Hash \in [Felts -> Nat] /\ TagHash \in [Tags -> Nat]

ASSUME XorAssumption ==
    /\ BitXor \in [Buckets \X Buckets -> Buckets]
    /\ \A i, j \in Buckets : BitXor[BitXor[i, j], j] = i

VARIABLES
    table,      \* bucket -> slot -> the tag there, or NoTag
    overflow,   \* the slot for one tag more: used, index, tag
    num_items,
    insertion,  \* the run of add_index_tag: active, index, tag, turn, counted
    bin,        \* the felts of the bin: copies <<felt, number>>
    refused     \* an add has been refused since the filter was made

vars == <<table, overflow, num_items, insertion, bin, refused>>

Copies == Felts \X (1 .. KeyCountMax)

EmptyTable == [i \in Buckets |-> [j \in Slots |-> NoTag]]
NoOverflow == [used |-> FALSE, index |-> 0, tag |-> 1]
NoInsertion == [active |-> FALSE, index |-> 0, tag |-> 1, turn |-> 0, counted |-> FALSE]

Init ==
    /\ table = EmptyTable /\ overflow = NoOverflow /\ num_items = 0
    /\ insertion = NoInsertion
    /\ bin = {} /\ refused = FALSE
-----------------------------------------------------------------------------
\* Bug variant: a tag of zero, which marks a free slot, is taken as it is.
Bug_TagBitLimit(value) == value % TagValues

\* tag_bit_limit: the low bits, and 1 for 0
TagBitLimit(value) == LET t == value % TagValues IN IF t = 0 THEN 1 ELSE t

\* idx_bucket_limit, get_tag_and_index, get_alt_index
IdxBucketLimit(value) == value % NumBuckets
Index(x) == IdxBucketLimit(Hash[x])
Tag(x)   == TagBitLimit(Hash[x])
AltIndex(i, t) == BitXor[i, IdxBucketLimit(TagHash[t])]

SlotsOf(i, t) == {j \in Slots : table[i][j] = t}

InOverflow(x) ==
    /\ overflow.used /\ overflow.tag = Tag(x)
    /\ overflow.index \in {Index(x), AltIndex(Index(x), Tag(x))}

Contains(x) ==
    \/ InOverflow(x)
    \/ SlotsOf(Index(x), Tag(x)) # {}
    \/ SlotsOf(AltIndex(Index(x), Tag(x)), Tag(x)) # {}

First(s) == CHOOSE j \in s : \A k \in s : j <= k

Loop(index, tag, turn, counted) ==
    insertion' = [active |-> TRUE, index |-> index, tag |-> tag, turn |-> turn,
                  counted |-> counted]

\* multi_insert: a copy of x is pushed into the bin, which stays below its
\* limit, and added to the filter.  What add returns is not looked at.
Add(x) ==
    /\ ~insertion.active /\ Cardinality(bin) + 1 < KeyCountMax
    /\ \E n \in 1 .. KeyCountMax :
         /\ <<x, n>> \notin bin /\ \A m \in 1 .. n - 1 : <<x, m>> \in bin
         /\ bin' = bin \cup {<<x, n>>}
    /\ IF overflow.used THEN refused' = TRUE /\ UNCHANGED insertion
       ELSE Loop(Index(x), Tag(x), 0, TRUE) /\ UNCHANGED refused
    /\ UNCHANGED <<table, overflow, num_items>>

\* An item that add placed is counted, one that came from the overflow slot is not.
CountItem == num_items' = IF insertion.counted THEN num_items + 1 ELSE num_items

FreeSlots == SlotsOf(insertion.index, NoTag)

\* insert_tag finds a free slot.
InsertTag ==
    /\ insertion.active /\ insertion.turn < MaxKicks /\ FreeSlots # {}
    /\ table' = [table EXCEPT ![insertion.index][First(FreeSlots)] = insertion.tag]
    /\ insertion' = NoInsertion
    /\ CountItem
    /\ UNCHANGED <<overflow, bin, refused>>

\* The first bucket is full: nothing is kicked out of it yet.
TryAltIndex ==
    /\ insertion.active /\ insertion.turn < MaxKicks /\ FreeSlots = {} /\ insertion.turn = 0
    /\ Loop(AltIndex(insertion.index, insertion.tag), insertion.tag, 1, insertion.counted)
    /\ UNCHANGED <<table, overflow, num_items, bin, refused>>

\* Bug variant: the tag kicked out is looked for under the other tag's index.
Bug_Kick(j) ==
    LET old == table[insertion.index][j] IN
    /\ insertion.active /\ insertion.turn < MaxKicks /\ FreeSlots = {} /\ insertion.turn > 0
    /\ table' = [table EXCEPT ![insertion.index][j] = insertion.tag]
    /\ Loop(AltIndex(insertion.index, insertion.tag), old, insertion.turn + 1, insertion.counted)
    /\ UNCHANGED <<overflow, num_items, bin, refused>>

\* The tag in a slot chosen at random gives way and moves to its other bucket.
Kick(j) ==
    LET old == table[insertion.index][j] IN
    /\ insertion.active /\ insertion.turn < MaxKicks /\ FreeSlots = {} /\ insertion.turn > 0
    /\ table' = [table EXCEPT ![insertion.index][j] = insertion.tag]
    /\ Loop(AltIndex(insertion.index, old), old, insertion.turn + 1, insertion.counted)
    /\ UNCHANGED <<overflow, num_items, bin, refused>>

GiveUp ==
    /\ insertion.active /\ insertion.turn = MaxKicks
    /\ overflow' = [used |-> TRUE, index |-> insertion.index, tag |-> insertion.tag]
    /\ insertion' = NoInsertion
    /\ CountItem
    /\ UNCHANGED <<table, bin, refused>>

FreeOverflow == overflow' = [used |-> FALSE, index |-> overflow.index, tag |-> overflow.tag]

\* Bug variant: the tag in the overflow slot is inserted again and counted again.
Bug_TryEliminateOverflow ==
    IF overflow.used
    THEN FreeOverflow /\ Loop(overflow.index, overflow.tag, 0, TRUE)
    ELSE UNCHANGED <<overflow, insertion>>

TryEliminateOverflow ==
    IF overflow.used
    THEN FreeOverflow /\ Loop(overflow.index, overflow.tag, 0, FALSE)
    ELSE UNCHANGED <<overflow, insertion>>

\* try_multi_remove: x is looked up, removed from the filter and erased from
\* the bin.  One tag goes: from the first bucket, from the other, or from the
\* overflow slot.
Remove(x) ==
    LET i == Index(x)
        t == Tag(x)
        delete(b) == /\ table' = [table EXCEPT ![b][First(SlotsOf(b, t))] = NoTag]
                     /\ TryEliminateOverflow
    IN
    /\ ~insertion.active /\ Contains(x)
    /\ \E n \in 1 .. KeyCountMax :
         /\ <<x, n>> \in bin /\ <<x, n + 1>> \notin bin
         /\ bin' = bin \ {<<x, n>>}
    /\ IF SlotsOf(i, t) # {} THEN delete(i)
       ELSE IF SlotsOf(AltIndex(i, t), t) # {} THEN delete(AltIndex(i, t))
       ELSE FreeOverflow /\ UNCHANGED <<table, insertion>>
    /\ num_items' = num_items - 1
    /\ UNCHANGED refused

\* BinBundle::clear makes a new filter.
Clear ==
    /\ ~insertion.active
    /\ table' = EmptyTable /\ overflow' = NoOverflow /\ num_items' = 0
    /\ bin' = {} /\ refused' = FALSE
    /\ UNCHANGED insertion

Next ==
    \/ \E x \in Felts : Add(x) \/ Remove(x)
    \/ InsertTag \/ TryAltIndex \/ GiveUp \/ \E j \in Slots : Kick(j)
    \/ Clear

Spec == Init /\ [][Next]_vars
-----------------------------------------------------------------------------
\* The types of the variables (members of CuckooFilter, cuckoo_filter.h:82-103).
TypeOK ==
    /\ table \in [Buckets -> [Slots -> Tags \cup {NoTag}]]
    /\ overflow \in [used : BOOLEAN, index : Buckets, tag : Tags]
    /\ num_items \in Nat
    /\ insertion \in [active : BOOLEAN, index : Buckets, tag : Tags, turn : 0 .. MaxKicks,
                      counted : BOOLEAN]
    /\ bin \subseteq Copies /\ refused \in BOOLEAN

\* Until an add has been refused the filter denies nothing the bin holds
\* (CuckooFilterLimits, tests/unit/src/sender/utils.cpp:142-191): kicks,
\* the overflow slot and the removal of felts with the same tag lose nothing.
NoFalseNegative ==
    ~insertion.active /\ ~refused => \A copy \in bin : Contains(copy[1])

\* num_items_ is the number of tags stored, and until an add has been refused
\* the number of felts in the bin.
ItemsAreCounted ==
    ~insertion.active =>
        /\ num_items = Cardinality({p \in Buckets \X Slots : table[p[1]][p[2]] # NoTag})
                         + IF overflow.used THEN 1 ELSE 0
        /\ ~refused => num_items = Cardinality(bin)
=============================================================================
