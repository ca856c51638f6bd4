------------------------- MODULE CuckooFilterProofs -------------------------
(***************************************************************************)
(* Theorems about CuckooFilter for any hash functions and sizes: what was  *)
(* added is found, and the number of items is exact.                       *)
(*                                                                         *)
(* A tag is in a slot of the table, in the overflow slot or in the hand of *)
(* add_index_tag: these are the places.  The pairs of a bucket and a tag   *)
(* that a look-up cannot tell apart form classes, closed under the other   *)
(* index; as many places hold an entry of a class as the bin holds felts   *)
(* of it, through every kick.                                              *)
(***************************************************************************)
EXTENDS CuckooFilter, FiniteSetTheorems, WellFoundedInduction, TLAPS

InOver == <<NumBuckets, 0>>
InHand == <<NumBuckets, 1>>
Places == (Buckets \X Slots) \cup {InOver, InHand}
NoEntry == <<0, NoTag>>

Entry(p) ==
    IF p = InOver THEN IF overflow.used THEN <<overflow.index, overflow.tag>> ELSE NoEntry
    ELSE IF p = InHand THEN IF insertion.active THEN <<insertion.index, insertion.tag>> ELSE NoEntry
    ELSE <<p[1], table[p[1]][p[2]]>>

AllEntries == Buckets \X Tags

\* A set of entries that holds with each entry the one with the other index
Closed(C) == \A i \in Buckets, t \in Tags : <<i, t>> \in C <=> <<AltIndex(i, t), t>> \in C

Held(C)  == {p \in Places : Entry(p) \in C}
Home(x)  == <<Index(x), Tag(x)>>
InBin(C) == {k \in bin : Home(k[1]) \in C}

Bit(b) == IF b THEN 1 ELSE 0

Counted == Cardinality(Held(AllEntries)) = num_items + Bit(insertion.active /\ insertion.counted)

Conserved ==
    ~refused => \A C \in SUBSET AllEntries :
        Closed(C) => Cardinality(Held(C)) = Cardinality(InBin(C))

FilterInv ==
    /\ TypeOK
    /\ insertion.active => ~overflow.used
    /\ Counted
    /\ Conserved
-----------------------------------------------------------------------------
\* Sets that differ in at most one, two or three elements
LEMMA OneChange ==
    ASSUME NEW S, NEW T, NEW q, IsFiniteSet(S), S \ {q} = T \ {q}
    PROVE  /\ IsFiniteSet(T) /\ Cardinality(S) \in Nat /\ Cardinality(T) \in Nat
           /\ Cardinality(T) = Cardinality(S) - Bit(q \in S) + Bit(q \in T)
<1> DEFINE R == S \ {q}
<1>1. /\ IsFiniteSet(R) /\ Cardinality(S) \in Nat
      /\ Cardinality(R) = IF q \in S THEN Cardinality(S) - 1 ELSE Cardinality(S)
    BY FS_RemoveElement, FS_CardinalityType
<1>2. /\ IsFiniteSet(R \cup {q}) /\ Cardinality(R) \in Nat
      /\ Cardinality(R \cup {q}) = IF q \in R THEN Cardinality(R) ELSE Cardinality(R) + 1
    BY <1>1, FS_AddElement, FS_CardinalityType
<1>3. CASE q \in T
    <2>1. T = R \cup {q} /\ q \notin R
        BY <1>3
    <2> QED
        BY <1>1, <1>2, <1>3, <2>1 DEF Bit
<1>4. CASE q \notin T
    <2>1. T = R
        BY <1>4
    <2> QED
        BY <1>1, <1>2, <1>4, <2>1 DEF Bit
<1> QED
    BY <1>3, <1>4

LEMMA TwoChanges ==
    ASSUME NEW S, NEW T, NEW q, NEW r, IsFiniteSet(S), q # r, S \ {q, r} = T \ {q, r}
    PROVE  /\ IsFiniteSet(T) /\ Cardinality(S) \in Nat /\ Cardinality(T) \in Nat
           /\ Cardinality(T) = Cardinality(S) - Bit(q \in S) - Bit(r \in S)
                                 + Bit(q \in T) + Bit(r \in T)
<1> DEFINE U == (S \ {q}) \cup (T \cap {q})
<1>1. S \ {q} = U \ {q} /\ U \ {r} = T \ {r} /\ (q \in U <=> q \in T) /\ (r \in U <=> r \in S)
    OBVIOUS
<1> HIDE DEF U
<1>2. /\ IsFiniteSet(U) /\ Cardinality(S) \in Nat /\ Cardinality(U) \in Nat
      /\ Cardinality(U) = Cardinality(S) - Bit(q \in S) + Bit(q \in U)
    BY <1>1, OneChange
<1>3. /\ IsFiniteSet(T) /\ Cardinality(T) \in Nat
      /\ Cardinality(T) = Cardinality(U) - Bit(r \in U) + Bit(r \in T)
    BY <1>1, <1>2, OneChange
<1> QED
    BY <1>1, <1>2, <1>3 DEF Bit

LEMMA ThreeChanges ==
    ASSUME NEW S, NEW T, NEW q, NEW r, NEW s, IsFiniteSet(S), q # r, q # s, r # s,
           S \ {q, r, s} = T \ {q, r, s}
    PROVE  /\ IsFiniteSet(T) /\ Cardinality(S) \in Nat /\ Cardinality(T) \in Nat
           /\ Cardinality(T) = Cardinality(S) - Bit(q \in S) - Bit(r \in S) - Bit(s \in S)
                                 + Bit(q \in T) + Bit(r \in T) + Bit(s \in T)
<1> DEFINE U == (S \ {q}) \cup (T \cap {q})
<1>1. /\ S \ {q} = U \ {q} /\ U \ {r, s} = T \ {r, s} /\ (q \in U <=> q \in T)
      /\ (r \in U <=> r \in S) /\ (s \in U <=> s \in S)
    OBVIOUS
<1> HIDE DEF U
<1>2. /\ IsFiniteSet(U) /\ Cardinality(S) \in Nat /\ Cardinality(U) \in Nat
      /\ Cardinality(U) = Cardinality(S) - Bit(q \in S) + Bit(q \in U)
    BY <1>1, OneChange
<1>3. /\ IsFiniteSet(T) /\ Cardinality(T) \in Nat
      /\ Cardinality(T) = Cardinality(U) - Bit(r \in U) - Bit(s \in U) + Bit(r \in T) + Bit(s \in T)
    BY <1>1, <1>2, TwoChanges
<1> QED
    BY <1>1, <1>2, <1>3 DEF Bit
-----------------------------------------------------------------------------
\* The other index of the other index is the index.
LEMMA IndexTypes ==
    /\ \A x \in Felts : Index(x) \in Buckets /\ Tag(x) \in Tags /\ Home(x) \in AllEntries
    /\ \A i \in Buckets, t \in Tags :
         AltIndex(i, t) \in Buckets /\ AltIndex(AltIndex(i, t), t) = i
<1>1. \A v \in Nat : v % NumBuckets \in Buckets
    BY CuckooFilterAssumption DEF Buckets
<1>2. \A v \in Nat : v % TagValues \in 0 .. TagValues - 1
    BY CuckooFilterAssumption
<1>3. ASSUME NEW x \in Felts
      PROVE  Index(x) \in Buckets /\ Tag(x) \in Tags /\ Home(x) \in AllEntries
    <2>1. Hash[x] \in Nat
        BY CuckooFilterAssumption
    <2>2. Index(x) \in Buckets
        BY <1>1, <2>1 DEF Index, IdxBucketLimit
    <2>3. Tag(x) \in Tags
        <3> DEFINE v == Hash[x] % TagValues
        <3>1. v \in 0 .. TagValues - 1
            BY <1>2, <2>1
        <3>2. Tag(x) = IF v = 0 THEN 1 ELSE v
            BY DEF Tag, TagBitLimit
        <3> HIDE DEF v
        <3> QED
            BY <3>1, <3>2, CuckooFilterAssumption DEF Tags
    <2> QED
        BY <2>2, <2>3 DEF Home, AllEntries
<1>4. ASSUME NEW i \in Buckets, NEW t \in Tags
      PROVE  AltIndex(i, t) \in Buckets /\ AltIndex(AltIndex(i, t), t) = i
    <2>1. IdxBucketLimit(TagHash[t]) \in Buckets
        BY <1>1, CuckooFilterAssumption DEF IdxBucketLimit
    <2>2. PICK j \in Buckets : j = IdxBucketLimit(TagHash[t])
        BY <2>1
    <2>3. AltIndex(i, t) = BitXor[i, j] /\ BitXor[i, j] \in Buckets /\ BitXor[BitXor[i, j], j] = i
        BY <2>2, XorAssumption DEF AltIndex
    <2> QED
        BY <2>2, <2>3 DEF AltIndex
<1> QED
    BY <1>3, <1>4

\* The places and the entries they hold
LEMMA PlaceTypes ==
    /\ IsFiniteSet(Places)
    /\ InOver \in Places /\ InHand \in Places /\ InOver # InHand
    /\ \A i \in Buckets, j \in Slots : <<i, j>> \in Places /\ <<i, j>> # InOver /\ <<i, j>> # InHand
    /\ NoEntry \notin AllEntries /\ NoTag \notin Tags
    /\ 0 \in Buckets /\ 1 \in Tags
<1>1. IsFiniteSet(Buckets) /\ IsFiniteSet(Slots)
    BY CuckooFilterAssumption, FS_Interval DEF Buckets, Slots
<1>2. IsFiniteSet(Buckets \X Slots)
    BY <1>1, FS_Product
<1>3. IsFiniteSet({InOver, InHand})
    <2>1. IsFiniteSet({InOver} \cup {InHand})
        BY FS_Singleton, FS_AddElement
    <2> QED
        BY <2>1
<1>4. IsFiniteSet(Places)
    BY <1>2, <1>3, FS_Union DEF Places
<1> QED
    BY <1>4, CuckooFilterAssumption
    DEF Places, InOver, InHand, Buckets, Slots, NoEntry, AllEntries, NoTag, Tags

LEMMA HeldIsFinite == \A C : IsFiniteSet(Held(C)) /\ IsFiniteSet(Held(C)')
<1>1. \A C : Held(C) \in SUBSET Places /\ Held(C)' \in SUBSET Places
    BY DEF Held
<1> QED
    BY <1>1, PlaceTypes, FS_Subset

LEMMA BinIsFinite ==
    ASSUME bin \subseteq Copies
    PROVE  IsFiniteSet(bin) /\ \A C : IsFiniteSet(InBin(C))
<1>1. IsFiniteSet(Copies)
    <2>1. IsFiniteSet(1 .. KeyCountMax) /\ IsFiniteSet(Felts)
        BY CuckooFilterAssumption, FS_Interval
    <2> QED
        BY <2>1, FS_Product DEF Copies
<1>2. IsFiniteSet(bin)
    BY <1>1, FS_Subset
<1>3. \A C : InBin(C) \in SUBSET bin
    BY DEF InBin
<1> QED
    BY <1>2, <1>3, FS_Subset

\* Only the places named here may change what they hold.
LEMMA HeldElsewhere ==
    ASSUME NEW C, NEW Q, \A p \in Places \ Q : Entry(p)' = Entry(p)
    PROVE  Held(C) \ Q = Held(C)' \ Q
BY DEF Held

LEMMA EntryOfSlot ==
    ASSUME NEW i \in Buckets, NEW j \in Slots
    PROVE  Entry(<<i, j>>) = <<i, table[i][j]>> /\ Entry(<<i, j>>)' = <<i, table'[i][j]>>
BY PlaceTypes DEF Entry

LEMMA EntryOfHand ==
    /\ Entry(InHand) = IF insertion.active THEN <<insertion.index, insertion.tag>> ELSE NoEntry
    /\ Entry(InHand)' = IF insertion'.active THEN <<insertion'.index, insertion'.tag>> ELSE NoEntry
    /\ Entry(InOver) = IF overflow.used THEN <<overflow.index, overflow.tag>> ELSE NoEntry
    /\ Entry(InOver)' = IF overflow'.used THEN <<overflow'.index, overflow'.tag>> ELSE NoEntry
BY PlaceTypes DEF Entry

LEMMA FrameOfSlots ==
    ASSUME NEW p \in Buckets \X Slots, table'[p[1]][p[2]] = table[p[1]][p[2]]
    PROVE  Entry(p)' = Entry(p)
<1>1. p # InOver /\ p # InHand
    BY PlaceTypes
<1> QED
    BY <1>1 DEF Entry

\* What a change of the entries of two places does to the number of tags held
LEMMA HeldChange ==
    ASSUME NEW C, NEW q \in Places, NEW r \in Places, q # r,
           \A p \in Places \ {q, r} : Entry(p)' = Entry(p)
    PROVE  /\ Cardinality(Held(C)) \in Nat /\ Cardinality(Held(C)') \in Nat
           /\ Cardinality(Held(C)') =
                Cardinality(Held(C)) - Bit(Entry(q) \in C) - Bit(Entry(r) \in C)
                  + Bit(Entry(q)' \in C) + Bit(Entry(r)' \in C)
<1>1. Held(C) \ {q, r} = Held(C)' \ {q, r}
    BY HeldElsewhere
<1>2. /\ q \in Held(C) <=> Entry(q) \in C
      /\ r \in Held(C) <=> Entry(r) \in C
      /\ q \in Held(C)' <=> Entry(q)' \in C
      /\ r \in Held(C)' <=> Entry(r)' \in C
    BY DEF Held
<1>3. IsFiniteSet(Held(C))
    BY HeldIsFinite
<1>4. /\ Cardinality(Held(C)) \in Nat /\ Cardinality(Held(C)') \in Nat
      /\ Cardinality(Held(C)') = Cardinality(Held(C)) - Bit(q \in Held(C)) - Bit(r \in Held(C))
                                    + Bit(q \in Held(C)') + Bit(r \in Held(C)')
    BY <1>1, <1>3, TwoChanges
<1>5. /\ Bit(q \in Held(C)) = Bit(Entry(q) \in C) /\ Bit(r \in Held(C)) = Bit(Entry(r) \in C)
      /\ Bit(q \in Held(C)') = Bit(Entry(q)' \in C) /\ Bit(r \in Held(C)') = Bit(Entry(r)' \in C)
    BY <1>2 DEF Bit
<1> QED
    BY <1>4, <1>5

LEMMA HeldChangeOfThree ==
    ASSUME NEW C, NEW q \in Places, NEW r \in Places, NEW s \in Places, q # r, q # s, r # s,
           \A p \in Places \ {q, r, s} : Entry(p)' = Entry(p)
    PROVE  /\ Cardinality(Held(C)) \in Nat /\ Cardinality(Held(C)') \in Nat
           /\ Cardinality(Held(C)') =
                Cardinality(Held(C)) - Bit(Entry(q) \in C) - Bit(Entry(r) \in C) - Bit(Entry(s) \in C)
                  + Bit(Entry(q)' \in C) + Bit(Entry(r)' \in C) + Bit(Entry(s)' \in C)
<1>1. Held(C) \ {q, r, s} = Held(C)' \ {q, r, s}
    BY HeldElsewhere
<1>2. /\ q \in Held(C) <=> Entry(q) \in C
      /\ r \in Held(C) <=> Entry(r) \in C
      /\ s \in Held(C) <=> Entry(s) \in C
      /\ q \in Held(C)' <=> Entry(q)' \in C
      /\ r \in Held(C)' <=> Entry(r)' \in C
      /\ s \in Held(C)' <=> Entry(s)' \in C
    BY DEF Held
<1>3. IsFiniteSet(Held(C))
    BY HeldIsFinite
<1>4. /\ Cardinality(Held(C)) \in Nat /\ Cardinality(Held(C)') \in Nat
      /\ Cardinality(Held(C)') =
           Cardinality(Held(C)) - Bit(q \in Held(C)) - Bit(r \in Held(C)) - Bit(s \in Held(C))
             + Bit(q \in Held(C)') + Bit(r \in Held(C)') + Bit(s \in Held(C)')
    BY <1>1, <1>3, ThreeChanges
<1>5. /\ Bit(q \in Held(C)) = Bit(Entry(q) \in C) /\ Bit(r \in Held(C)) = Bit(Entry(r) \in C)
      /\ Bit(s \in Held(C)) = Bit(Entry(s) \in C)
      /\ Bit(q \in Held(C)') = Bit(Entry(q)' \in C) /\ Bit(r \in Held(C)') = Bit(Entry(r)' \in C)
      /\ Bit(s \in Held(C)') = Bit(Entry(s)' \in C)
    BY <1>2 DEF Bit
<1> QED
    BY <1>4, <1>5

\* The bin gets, or loses, one copy of a felt.
LEMMA BinChange ==
    ASSUME bin \subseteq Copies, NEW x \in Felts, NEW n,
           \/ <<x, n>> \notin bin /\ bin' = bin \cup {<<x, n>>}
           \/ <<x, n>> \in bin /\ bin' = bin \ {<<x, n>>},
           NEW C
    PROVE  /\ Cardinality(InBin(C)) \in Nat
           /\ Cardinality(InBin(C)') = Cardinality(InBin(C))
                + (IF <<x, n>> \in bin THEN -1 ELSE 1) * Bit(Home(x) \in C)
<1> DEFINE S == InBin(C)
           T == InBin(C)'
           k == <<x, n>>
<1>1. /\ S \ {k} = T \ {k}
      /\ k \in S <=> k \in bin /\ Home(x) \in C
      /\ k \in T <=> k \notin bin /\ Home(x) \in C
    BY DEF InBin, Home, Index, Tag
<1>2. IsFiniteSet(S)
    BY BinIsFinite
<1> HIDE DEF S, T, k
<1>3. /\ Cardinality(S) \in Nat
      /\ Cardinality(T) = Cardinality(S) - Bit(k \in S) + Bit(k \in T)
    BY <1>1, <1>2, OneChange
<1>4. Cardinality(T) = Cardinality(S) + (IF k \in bin THEN -1 ELSE 1) * Bit(Home(x) \in C)
    BY <1>1, <1>3 DEF Bit
<1> QED
    BY <1>3, <1>4 DEF S, T, k

\* Nothing moves.
LEMMA HeldSame ==
    ASSUME UNCHANGED <<table, overflow, insertion>>
    PROVE  \A C : Held(C)' = Held(C)
BY DEF Held, Entry

LEMMA AllIsClosed == AllEntries \in SUBSET AllEntries /\ Closed(AllEntries)
BY IndexTypes DEF AllEntries, Closed
-----------------------------------------------------------------------------
LEMMA InitInv == Init => FilterInv
<1> SUFFICES ASSUME Init PROVE FilterInv
    OBVIOUS
<1>1. TypeOK
    <2>1. table \in [Buckets -> [Slots -> Tags \cup {NoTag}]]
        BY DEF Init, EmptyTable
    <2>2. overflow \in [used : BOOLEAN, index : Buckets, tag : Tags]
        BY PlaceTypes DEF Init, NoOverflow
    <2>3. insertion \in [active : BOOLEAN, index : Buckets, tag : Tags, turn : 0 .. MaxKicks,
                         counted : BOOLEAN]
        BY PlaceTypes, CuckooFilterAssumption DEF Init, NoInsertion
    <2> QED
        BY <2>1, <2>2, <2>3 DEF Init, TypeOK
<1>2. \A C \in SUBSET AllEntries : Held(C) = {}
    <2> SUFFICES ASSUME NEW C \in SUBSET AllEntries, NEW p \in Places PROVE Entry(p) \notin C
        BY DEF Held
    <2>1. p \in Buckets \X Slots => Entry(p)[2] = NoTag
        BY PlaceTypes DEF Entry, Init, EmptyTable
    <2>2. p \in {InOver, InHand} => Entry(p) = NoEntry
        BY EntryOfHand DEF Init, NoOverflow, NoInsertion
    <2> QED
        BY <2>1, <2>2, PlaceTypes DEF Places, AllEntries
<1>3. \A C : InBin(C) = {}
    BY DEF InBin, Init
<1>4. Counted
    <2>1. Cardinality(Held(AllEntries)) = 0
        BY <1>2, AllIsClosed, FS_EmptySet
    <2> QED
        BY <2>1 DEF Counted, Init, NoInsertion, Bit
<1>5. Conserved
    BY <1>2, <1>3 DEF Conserved
<1> QED
    BY <1>1, <1>4, <1>5 DEF FilterInv, Init, NoInsertion

\* Clear makes a filter like the first one.
LEMMA ClearInv == ASSUME FilterInv, Clear PROVE FilterInv'
<1>1. TypeOK'
    <2>1. table' \in [Buckets -> [Slots -> Tags \cup {NoTag}]]
        BY DEF Clear, EmptyTable
    <2>2. overflow' \in [used : BOOLEAN, index : Buckets, tag : Tags]
        BY PlaceTypes DEF Clear, NoOverflow
    <2> QED
        BY <2>1, <2>2 DEF FilterInv, Clear, TypeOK
<1>2. \A C \in SUBSET AllEntries : Held(C)' = {}
    <2> SUFFICES ASSUME NEW C \in SUBSET AllEntries, NEW p \in Places PROVE Entry(p)' \notin C
        BY DEF Held
    <2>1. p \in Buckets \X Slots => Entry(p)'[2] = NoTag
        BY PlaceTypes DEF Entry, Clear, EmptyTable
    <2>2. p \in {InOver, InHand} => Entry(p)' = NoEntry
        BY EntryOfHand DEF Clear, NoOverflow
    <2> QED
        BY <2>1, <2>2, PlaceTypes DEF Places, AllEntries
<1>3. \A C : InBin(C)' = {}
    BY DEF InBin, Clear
<1>4. Counted'
    <2>1. Cardinality(Held(AllEntries)') = 0
        BY <1>2, AllIsClosed, FS_EmptySet
    <2> QED
        BY <2>1 DEF Counted, Clear, Bit
<1>5. Conserved'
    BY <1>2, <1>3 DEF Conserved
<1> QED
    BY <1>1, <1>4, <1>5 DEF FilterInv, Clear

LEMMA AddInv == ASSUME FilterInv, NEW x \in Felts, Add(x) PROVE FilterInv'
<1>1. PICK n \in 1 .. KeyCountMax : <<x, n>> \notin bin /\ bin' = bin \cup {<<x, n>>}
    BY DEF Add
<1>2. bin \subseteq Copies /\ bin' \subseteq Copies
    BY <1>1 DEF FilterInv, TypeOK, Copies
<1>3. CASE overflow.used
    <2>1. UNCHANGED <<table, overflow, insertion, num_items>> /\ refused' = TRUE
        BY <1>3 DEF Add
    <2>2. TypeOK'
        BY <2>1, <1>2 DEF FilterInv, TypeOK
    <2>3. Counted'
        BY <2>1, HeldSame DEF FilterInv, Counted
    <2> QED
        BY <2>1, <2>2, <2>3 DEF FilterInv, Conserved
<1>4. CASE ~overflow.used
    <2>1. /\ UNCHANGED <<table, overflow, num_items, refused>> /\ ~insertion.active
          /\ insertion' = [active |-> TRUE, index |-> Index(x), tag |-> Tag(x), turn |-> 0,
                           counted |-> TRUE]
        BY <1>4 DEF Add, Loop
    <2>2. TypeOK'
        <3>1. Index(x) \in Buckets /\ Tag(x) \in Tags /\ 0 \in 0 .. MaxKicks
            BY IndexTypes, CuckooFilterAssumption
        <3>2. insertion' \in [active : BOOLEAN, index : Buckets, tag : Tags,
                              turn : 0 .. MaxKicks, counted : BOOLEAN]
            BY <2>1, <3>1
        <3> QED
            BY <2>1, <1>2, <3>2 DEF FilterInv, TypeOK
    <2>3. \A p \in Places \ {InHand, InOver} : Entry(p)' = Entry(p)
        BY <2>1 DEF Entry
    <2>4. /\ Entry(InHand) = NoEntry /\ Entry(InHand)' = Home(x)
          /\ Entry(InOver) = NoEntry /\ Entry(InOver)' = NoEntry
        BY <2>1, <1>4, EntryOfHand DEF Home
    <2>5. ASSUME NEW C \in SUBSET AllEntries
          PROVE  /\ Cardinality(Held(C)) \in Nat
                 /\ Cardinality(Held(C)') = Cardinality(Held(C)) + Bit(Home(x) \in C)
        <3>1. NoEntry \notin C
            BY PlaceTypes
        <3>2. /\ Cardinality(Held(C)) \in Nat
              /\ Cardinality(Held(C)') =
                   Cardinality(Held(C)) - Bit(Entry(InHand) \in C) - Bit(Entry(InOver) \in C)
                     + Bit(Entry(InHand)' \in C) + Bit(Entry(InOver)' \in C)
            BY <2>3, HeldChange, PlaceTypes
        <3>3. Bit(NoEntry \in C) = 0 /\ Bit(Home(x) \in C) \in Nat
            BY <3>1 DEF Bit
        <3> QED
            BY <3>2, <3>3, <2>4
    <2>6. Counted'
        <3>1. Cardinality(Held(AllEntries)) = num_items
            <4>1. Cardinality(Held(AllEntries)) = num_items + Bit(insertion.active /\ insertion.counted)
                BY DEF FilterInv, Counted
            <4>2. Bit(insertion.active /\ insertion.counted) = 0
                BY <2>1 DEF Bit
            <4> QED
                BY <4>1, <4>2 DEF FilterInv, TypeOK
        <3>2. Bit(Home(x) \in AllEntries) = 1
            BY IndexTypes DEF Bit
        <3>3. Cardinality(Held(AllEntries)') = num_items + 1
            BY <3>1, <3>2, <2>5, AllIsClosed
        <3> QED
            BY <3>3, <2>1 DEF Counted, Bit
    <2>7. Conserved'
        <3> SUFFICES ASSUME ~refused', NEW C \in SUBSET AllEntries, Closed(C)
                     PROVE  Cardinality(Held(C)') = Cardinality(InBin(C)')
            BY DEF Conserved, Closed, AltIndex, IdxBucketLimit
        <3>1. Cardinality(Held(C)) = Cardinality(InBin(C))
            BY <2>1 DEF FilterInv, Conserved
        <3>2. Cardinality(InBin(C)') = Cardinality(InBin(C)) + Bit(Home(x) \in C)
            <4>1. /\ Cardinality(InBin(C)) \in Nat
                  /\ Cardinality(InBin(C)') = Cardinality(InBin(C))
                       + (IF <<x, n>> \in bin THEN -1 ELSE 1) * Bit(Home(x) \in C)
                BY <1>1, <1>2, BinChange
            <4> QED
                BY <4>1, <1>1 DEF Bit
        <3> QED
            BY <3>1, <3>2, <2>5
    <2> QED
        BY <2>1, <2>2, <2>6, <2>7, <1>4 DEF FilterInv
<1> QED
    BY <1>3, <1>4
-----------------------------------------------------------------------------
\* The first slot of some slots is one of them.
LEMMA FirstOfSlots == ASSUME NEW S \in SUBSET Slots, S # {} PROVE First(S) \in S
<1> DEFINE R == {kk \in Nat \X Nat : kk[1] < kk[2]}
<1>1. IsWellFoundedOn(R, Nat) /\ S \in SUBSET Nat
    BY NatLessThanWellFounded DEF OpToRel, Slots
<1>2. \A k, n \in Nat : k < n => <<k, n>> \in R
    OBVIOUS
<1> HIDE DEF R
<1>3. PICK n \in S : \A k \in S : ~ (<<k, n>> \in R)
    BY <1>1, WFMin
<1>4. \A k \in S : k \in Nat /\ n \in Nat /\ ~ (k < n)
    BY <1>1, <1>2, <1>3, Zenon
<1>5. \A k \in S : n <= k
    BY <1>4
<1> QED
    BY <1>3, <1>5 DEF First

\* The steps of add_index_tag keep the tags of every class.
LEMMA LoopStep ==
    ASSUME FilterInv, TypeOK', UNCHANGED <<bin, refused>>, insertion'.active => ~overflow'.used,
           num_items' + Bit(insertion'.active /\ insertion'.counted)
             = num_items + Bit(insertion.active /\ insertion.counted),
           \A C \in SUBSET AllEntries :
              Closed(C) => Cardinality(Held(C)') = Cardinality(Held(C))
    PROVE  FilterInv'
<1>1. Counted'
    BY AllIsClosed DEF FilterInv, Counted
<1>2. \A C : InBin(C)' = InBin(C)
    BY DEF InBin, Home, Index, Tag
<1>3. Conserved'
    BY <1>2 DEF FilterInv, Conserved
<1> QED
    BY <1>1, <1>3 DEF FilterInv

LEMMA LoopTypes ==
    ASSUME TypeOK, insertion.active
    PROVE  /\ insertion.index \in Buckets /\ insertion.tag \in Tags
           /\ insertion.turn \in 0 .. MaxKicks /\ insertion.counted \in BOOLEAN
           /\ \A i \in Buckets, j \in Slots : table[i][j] \in Tags \cup {NoTag}
BY DEF TypeOK

LEMMA TableWrite ==
    ASSUME TypeOK, NEW i \in Buckets, NEW j \in Slots, NEW t \in Tags \cup {NoTag},
           table' = [table EXCEPT ![i][j] = t]
    PROVE  /\ table' \in [Buckets -> [Slots -> Tags \cup {NoTag}]]
           /\ Entry(<<i, j>>)' = <<i, t>>
           /\ \A p \in (Buckets \X Slots) \ {<<i, j>>} : Entry(p)' = Entry(p)
<1>1. table' \in [Buckets -> [Slots -> Tags \cup {NoTag}]] /\ table'[i][j] = t
    BY DEF TypeOK
<1>2. ASSUME NEW p \in (Buckets \X Slots) \ {<<i, j>>} PROVE Entry(p)' = Entry(p)
    <2>1. p[1] # i \/ p[2] # j
        BY <1>2
    <2>2. table'[p[1]][p[2]] = table[p[1]][p[2]]
        BY <2>1 DEF TypeOK
    <2> QED
        BY <2>2, FrameOfSlots
<1> QED
    BY <1>1, <1>2, EntryOfSlot

LEMMA InsertTagInv == ASSUME FilterInv, InsertTag PROVE FilterInv'
<1>1. PICK i \in Buckets, t \in Tags : i = insertion.index /\ t = insertion.tag
    BY LoopTypes DEF FilterInv, InsertTag
<1>2. PICK j \in Slots : j = First(FreeSlots) /\ table[i][j] = NoTag
    <2>1. FreeSlots \in SUBSET Slots /\ FreeSlots # {}
        BY DEF InsertTag, FreeSlots, SlotsOf
    <2>2. First(FreeSlots) \in FreeSlots
        BY <2>1, FirstOfSlots
    <2> QED
        BY <2>2, <1>1 DEF FreeSlots, SlotsOf
<1>3. /\ table' = [table EXCEPT ![i][j] = t] /\ insertion.active
      /\ insertion' = NoInsertion /\ UNCHANGED <<overflow, bin, refused>>
      /\ num_items' = IF insertion.counted THEN num_items + 1 ELSE num_items
    BY <1>1, <1>2 DEF InsertTag, CountItem
<1>4. /\ table' \in [Buckets -> [Slots -> Tags \cup {NoTag}]]
      /\ Entry(<<i, j>>)' = <<i, t>>
      /\ \A p \in (Buckets \X Slots) \ {<<i, j>>} : Entry(p)' = Entry(p)
    BY <1>3, TableWrite DEF FilterInv
<1>5. TypeOK'
    <2>1. num_items' \in Nat
        BY <1>3 DEF FilterInv, TypeOK
    <2>2. insertion' \in [active : BOOLEAN, index : Buckets, tag : Tags, turn : 0 .. MaxKicks,
                          counted : BOOLEAN]
        BY <1>3, PlaceTypes, CuckooFilterAssumption DEF NoInsertion
    <2> QED
        BY <1>3, <1>4, <2>1, <2>2 DEF FilterInv, TypeOK
<1>6. /\ <<i, j>> \in Places /\ InHand \in Places /\ <<i, j>> # InHand
      /\ Entry(<<i, j>>) = <<i, NoTag>> /\ Entry(InHand) = <<i, t>> /\ Entry(InHand)' = NoEntry
    BY <1>1, <1>2, <1>3, PlaceTypes, EntryOfSlot, EntryOfHand DEF NoInsertion
<1>7. \A p \in Places \ {<<i, j>>, InHand} : Entry(p)' = Entry(p)
    BY <1>3, <1>4, EntryOfHand DEF Places
<1>8. ASSUME NEW C \in SUBSET AllEntries PROVE Cardinality(Held(C)') = Cardinality(Held(C))
    <2>1. /\ Cardinality(Held(C)) \in Nat
          /\ Cardinality(Held(C)') =
               Cardinality(Held(C)) - Bit(Entry(<<i, j>>) \in C) - Bit(Entry(InHand) \in C)
                 + Bit(Entry(<<i, j>>)' \in C) + Bit(Entry(InHand)' \in C)
        BY <1>6, <1>7, HeldChange
    <2>2. <<i, NoTag>> \notin C /\ NoEntry \notin C
        BY PlaceTypes DEF AllEntries
    <2> QED
        BY <2>1, <2>2, <1>4, <1>6 DEF Bit
<1>9. num_items' + Bit(insertion'.active /\ insertion'.counted)
        = num_items + Bit(insertion.active /\ insertion.counted)
    BY <1>3 DEF Bit, NoInsertion, FilterInv, TypeOK
<1> QED
    BY <1>3, <1>5, <1>8, <1>9, LoopStep DEF NoInsertion

LEMMA TryAltIndexInv == ASSUME FilterInv, TryAltIndex PROVE FilterInv'
<1>1. PICK i \in Buckets, t \in Tags : i = insertion.index /\ t = insertion.tag
    BY LoopTypes DEF FilterInv, TryAltIndex
<1>2. /\ UNCHANGED <<table, overflow, num_items, bin, refused>> /\ insertion.active
      /\ insertion' = [active |-> TRUE, index |-> AltIndex(i, t), tag |-> t, turn |-> 1,
                       counted |-> insertion.counted]
    BY <1>1 DEF TryAltIndex, Loop
<1>3. TypeOK'
    <2>1. insertion.counted \in BOOLEAN /\ 1 \in 0 .. MaxKicks
        BY <1>2, LoopTypes, CuckooFilterAssumption DEF FilterInv
    <2>2. insertion' \in [active : BOOLEAN, index : Buckets, tag : Tags, turn : 0 .. MaxKicks,
                          counted : BOOLEAN]
        BY <1>2, <2>1, IndexTypes
    <2> QED
        BY <1>2, <2>2 DEF FilterInv, TypeOK
<1>4. Entry(InHand) = <<i, t>> /\ Entry(InHand)' = <<AltIndex(i, t), t>>
    BY <1>1, <1>2, EntryOfHand
<1>5. \A p \in Places \ {InHand} : Entry(p)' = Entry(p)
    BY <1>2 DEF Entry
<1>6. ASSUME NEW C \in SUBSET AllEntries, Closed(C) PROVE Held(C)' = Held(C)
    <2>1. Entry(InHand) \in C <=> Entry(InHand)' \in C
        BY <1>4, <1>6 DEF Closed
    <2> QED
        BY <2>1, <1>5 DEF Held
<1>7. num_items' + Bit(insertion'.active /\ insertion'.counted)
        = num_items + Bit(insertion.active /\ insertion.counted)
    BY <1>2
<1> QED
    BY <1>2, <1>3, <1>6, <1>7, LoopStep DEF FilterInv

\* The tag kicked out and the tag that takes its slot change places.
LEMMA KickInv == ASSUME FilterInv, NEW j \in Slots, Kick(j) PROVE FilterInv'
<1>1. PICK i \in Buckets, t \in Tags : i = insertion.index /\ t = insertion.tag
    BY LoopTypes DEF FilterInv, Kick
<1>2. PICK old \in Tags : old = table[i][j]
    <2>1. FreeSlots = {}
        BY DEF Kick
    <2>2. table[i][j] # NoTag
        BY <2>1, <1>1 DEF FreeSlots, SlotsOf
    <2>3. table[i][j] \in Tags \cup {NoTag}
        BY DEF FilterInv, TypeOK
    <2> QED
        BY <2>2, <2>3
<1>3. /\ table' = [table EXCEPT ![i][j] = t] /\ insertion.active
      /\ insertion.turn < MaxKicks /\ UNCHANGED <<overflow, num_items, bin, refused>>
      /\ insertion' = [active |-> TRUE, index |-> AltIndex(i, old), tag |-> old,
                       turn |-> insertion.turn + 1, counted |-> insertion.counted]
    BY <1>1, <1>2 DEF Kick, Loop
<1>4. /\ table' \in [Buckets -> [Slots -> Tags \cup {NoTag}]]
      /\ Entry(<<i, j>>)' = <<i, t>>
      /\ \A p \in (Buckets \X Slots) \ {<<i, j>>} : Entry(p)' = Entry(p)
    BY <1>3, TableWrite DEF FilterInv
<1>5. TypeOK'
    <2>1. insertion.counted \in BOOLEAN /\ insertion.turn + 1 \in 0 .. MaxKicks
        BY <1>3, LoopTypes, CuckooFilterAssumption DEF FilterInv
    <2>2. insertion' \in [active : BOOLEAN, index : Buckets, tag : Tags, turn : 0 .. MaxKicks,
                          counted : BOOLEAN]
        BY <1>3, <2>1, IndexTypes
    <2> QED
        BY <1>3, <1>4, <2>2 DEF FilterInv, TypeOK
<1>6. /\ <<i, j>> \in Places /\ InHand \in Places /\ <<i, j>> # InHand
      /\ Entry(<<i, j>>) = <<i, old>> /\ Entry(InHand) = <<i, t>>
      /\ Entry(InHand)' = <<AltIndex(i, old), old>>
    BY <1>1, <1>2, <1>3, PlaceTypes, EntryOfSlot, EntryOfHand
<1>7. \A p \in Places \ {<<i, j>>, InHand} : Entry(p)' = Entry(p)
    BY <1>3, <1>4, EntryOfHand DEF Places
<1>8. ASSUME NEW C \in SUBSET AllEntries, Closed(C)
      PROVE  Cardinality(Held(C)') = Cardinality(Held(C))
    <2>1. /\ Cardinality(Held(C)) \in Nat
          /\ Cardinality(Held(C)') =
               Cardinality(Held(C)) - Bit(Entry(<<i, j>>) \in C) - Bit(Entry(InHand) \in C)
                 + Bit(Entry(<<i, j>>)' \in C) + Bit(Entry(InHand)' \in C)
        BY <1>6, <1>7, HeldChange
    <2>2. <<i, old>> \in C <=> <<AltIndex(i, old), old>> \in C
        BY <1>8 DEF Closed
    <2> QED
        BY <2>1, <2>2, <1>4, <1>6 DEF Bit
<1>9. num_items' + Bit(insertion'.active /\ insertion'.counted)
        = num_items + Bit(insertion.active /\ insertion.counted)
    BY <1>3
<1> QED
    BY <1>3, <1>5, <1>8, <1>9, LoopStep DEF FilterInv
\* The tag that found no slot goes to the overflow slot, which is free.
LEMMA GiveUpInv == ASSUME FilterInv, GiveUp PROVE FilterInv'
<1>1. PICK i \in Buckets, t \in Tags : i = insertion.index /\ t = insertion.tag
    BY LoopTypes DEF FilterInv, GiveUp
<1>2. /\ UNCHANGED <<table, bin, refused>> /\ insertion.active /\ ~overflow.used
      /\ overflow' = [used |-> TRUE, index |-> i, tag |-> t] /\ insertion' = NoInsertion
      /\ num_items' = IF insertion.counted THEN num_items + 1 ELSE num_items
    BY <1>1 DEF GiveUp, CountItem, FilterInv
<1>3. TypeOK'
    <2>1. num_items' \in Nat
        BY <1>2 DEF FilterInv, TypeOK
    <2>2. insertion' \in [active : BOOLEAN, index : Buckets, tag : Tags, turn : 0 .. MaxKicks,
                          counted : BOOLEAN]
        BY <1>2, PlaceTypes, CuckooFilterAssumption DEF NoInsertion
    <2>3. overflow' \in [used : BOOLEAN, index : Buckets, tag : Tags]
        BY <1>2
    <2> QED
        BY <1>2, <2>1, <2>2, <2>3 DEF FilterInv, TypeOK
<1>4. /\ InOver \in Places /\ InHand \in Places /\ InOver # InHand
      /\ Entry(InOver) = NoEntry /\ Entry(InOver)' = <<i, t>>
      /\ Entry(InHand) = <<i, t>> /\ Entry(InHand)' = NoEntry
    BY <1>1, <1>2, PlaceTypes, EntryOfHand DEF NoInsertion
<1>5. \A p \in Places \ {InOver, InHand} : Entry(p)' = Entry(p)
    BY <1>2 DEF Entry
<1>6. ASSUME NEW C \in SUBSET AllEntries PROVE Cardinality(Held(C)') = Cardinality(Held(C))
    <2>1. /\ Cardinality(Held(C)) \in Nat
          /\ Cardinality(Held(C)') =
               Cardinality(Held(C)) - Bit(Entry(InOver) \in C) - Bit(Entry(InHand) \in C)
                 + Bit(Entry(InOver)' \in C) + Bit(Entry(InHand)' \in C)
        BY <1>4, <1>5, HeldChange
    <2> QED
        BY <2>1, <1>4 DEF Bit
<1>7. num_items' + Bit(insertion'.active /\ insertion'.counted)
        = num_items + Bit(insertion.active /\ insertion.counted)
    BY <1>2 DEF Bit, NoInsertion, FilterInv, TypeOK
<1> QED
    BY <1>2, <1>3, <1>6, <1>7, LoopStep DEF NoInsertion
-----------------------------------------------------------------------------
\* One tag leaves and the filter is ready for the next call, or is inserting
\* the tag of the overflow slot without counting it again.
TagRemoved(b, t) ==
    /\ table' \in [Buckets -> [Slots -> Tags \cup {NoTag}]]
    /\ overflow' \in [used : BOOLEAN, index : Buckets, tag : Tags]
    /\ insertion' \in [active : BOOLEAN, index : Buckets, tag : Tags, turn : 0 .. MaxKicks,
                       counted : BOOLEAN]
    /\ insertion'.active => ~overflow'.used /\ ~insertion'.counted
    /\ \A C \in SUBSET AllEntries :
         /\ Cardinality(Held(C)) \in Nat /\ Cardinality(Held(C)') \in Nat
         /\ Cardinality(Held(C)') = Cardinality(Held(C)) - Bit(<<b, t>> \in C)

LEMMA OverflowFreed ==
    ASSUME FilterInv, overflow.used, FreeOverflow, UNCHANGED <<table, insertion>>, ~insertion.active
    PROVE  TagRemoved(overflow.index, overflow.tag)
<1>1. PICK b \in Buckets, t \in Tags : b = overflow.index /\ t = overflow.tag
    BY DEF FilterInv, TypeOK
<1>2. overflow' = [used |-> FALSE, index |-> b, tag |-> t]
    BY <1>1 DEF FreeOverflow
<1>3. /\ InOver \in Places /\ InHand \in Places /\ InOver # InHand
      /\ Entry(InOver) = <<b, t>> /\ Entry(InOver)' = NoEntry
      /\ Entry(InHand) = NoEntry /\ Entry(InHand)' = NoEntry
    BY <1>1, <1>2, PlaceTypes, EntryOfHand
<1>4. \A p \in Places \ {InOver, InHand} : Entry(p)' = Entry(p)
    BY <1>2 DEF Entry
<1>5. ASSUME NEW C \in SUBSET AllEntries
      PROVE  /\ Cardinality(Held(C)) \in Nat /\ Cardinality(Held(C)') \in Nat
             /\ Cardinality(Held(C)') = Cardinality(Held(C)) - Bit(<<b, t>> \in C)
    <2>1. /\ Cardinality(Held(C)) \in Nat /\ Cardinality(Held(C)') \in Nat
          /\ Cardinality(Held(C)') =
               Cardinality(Held(C)) - Bit(Entry(InOver) \in C) - Bit(Entry(InHand) \in C)
                 + Bit(Entry(InOver)' \in C) + Bit(Entry(InHand)' \in C)
        BY <1>3, <1>4, HeldChange
    <2>2. NoEntry \notin C
        BY PlaceTypes
    <2> QED
        BY <2>1, <2>2, <1>3 DEF Bit
<1>6. overflow' \in [used : BOOLEAN, index : Buckets, tag : Tags]
    BY <1>2
<1> QED
    BY <1>1, <1>5, <1>6 DEF TagRemoved, FilterInv, TypeOK

LEMMA TagDeleted ==
    ASSUME FilterInv, ~insertion.active, NEW b \in Buckets, NEW t \in Tags, SlotsOf(b, t) # {},
           table' = [table EXCEPT ![b][First(SlotsOf(b, t))] = NoTag], TryEliminateOverflow
    PROVE  TagRemoved(b, t)
<1>1. PICK j \in Slots : j = First(SlotsOf(b, t)) /\ table[b][j] = t
    <2>1. SlotsOf(b, t) \in SUBSET Slots
        BY DEF SlotsOf
    <2>2. First(SlotsOf(b, t)) \in SlotsOf(b, t)
        BY <2>1, FirstOfSlots
    <2> QED
        BY <2>2 DEF SlotsOf
<1>2. table' = [table EXCEPT ![b][j] = NoTag]
    BY <1>1
<1>3. /\ table' \in [Buckets -> [Slots -> Tags \cup {NoTag}]]
      /\ Entry(<<b, j>>)' = <<b, NoTag>>
      /\ \A p \in (Buckets \X Slots) \ {<<b, j>>} : Entry(p)' = Entry(p)
    BY <1>2, TableWrite DEF FilterInv
<1>4. PICK i \in Buckets, u \in Tags : i = overflow.index /\ u = overflow.tag
    BY DEF FilterInv, TypeOK
<1>5. \/ /\ overflow.used /\ overflow' = [used |-> FALSE, index |-> i, tag |-> u]
         /\ insertion' = [active |-> TRUE, index |-> i, tag |-> u, turn |-> 0, counted |-> FALSE]
      \/ ~overflow.used /\ UNCHANGED <<overflow, insertion>>
    BY <1>4 DEF TryEliminateOverflow, FreeOverflow, Loop
<1>6. overflow' \in [used : BOOLEAN, index : Buckets, tag : Tags]
    <2>1. overflow \in [used : BOOLEAN, index : Buckets, tag : Tags]
        BY DEF FilterInv, TypeOK
    <2>2. [used |-> FALSE, index |-> i, tag |-> u] \in [used : BOOLEAN, index : Buckets, tag : Tags]
        OBVIOUS
    <2> QED
        BY <1>5, <2>1, <2>2, Zenon
<1>7. insertion' \in [active : BOOLEAN, index : Buckets, tag : Tags, turn : 0 .. MaxKicks,
                      counted : BOOLEAN]
    <2> DEFINE L == [active : BOOLEAN, index : Buckets, tag : Tags, turn : 0 .. MaxKicks,
                     counted : BOOLEAN]
    <2>1. insertion \in L
        BY DEF FilterInv, TypeOK
    <2>2. [active |-> TRUE, index |-> i, tag |-> u, turn |-> 0, counted |-> FALSE] \in L
        BY CuckooFilterAssumption
    <2> HIDE DEF L
    <2>3. insertion' \in L
        BY <1>5, <2>1, <2>2, Zenon
    <2> QED
        BY <2>3 DEF L
<1>8. insertion'.active => ~overflow'.used /\ ~insertion'.counted
    BY <1>5
<1>9. /\ Entry(InHand) = NoEntry
      /\ Entry(InHand)' = Entry(InOver)
      /\ Entry(InOver)' = NoEntry
      /\ Entry(<<b, j>>) = <<b, t>>
    BY <1>1, <1>4, <1>5, EntryOfHand, EntryOfSlot
<1>10. /\ <<b, j>> \in Places /\ InHand \in Places /\ InOver \in Places
       /\ <<b, j>> # InHand /\ <<b, j>> # InOver /\ InOver # InHand
    BY PlaceTypes
<1>11. \A p \in Places \ {<<b, j>>, InHand, InOver} : Entry(p)' = Entry(p)
    BY <1>3 DEF Places
<1>12. ASSUME NEW C \in SUBSET AllEntries
       PROVE  /\ Cardinality(Held(C)) \in Nat /\ Cardinality(Held(C)') \in Nat
              /\ Cardinality(Held(C)') = Cardinality(Held(C)) - Bit(<<b, t>> \in C)
    <2>1. /\ Cardinality(Held(C)) \in Nat /\ Cardinality(Held(C)') \in Nat
          /\ Cardinality(Held(C)') =
               Cardinality(Held(C)) - Bit(Entry(<<b, j>>) \in C) - Bit(Entry(InHand) \in C)
                 - Bit(Entry(InOver) \in C) + Bit(Entry(<<b, j>>)' \in C)
                 + Bit(Entry(InHand)' \in C) + Bit(Entry(InOver)' \in C)
        BY <1>10, <1>11, HeldChangeOfThree
    <2>2. NoEntry \notin C /\ <<b, NoTag>> \notin C
        BY PlaceTypes DEF AllEntries
    <2>3. /\ Bit(Entry(InHand) \in C) = 0 /\ Bit(Entry(<<b, j>>)' \in C) = 0
          /\ Bit(Entry(InOver)' \in C) = 0 /\ Bit(Entry(<<b, j>>) \in C) = Bit(<<b, t>> \in C)
          /\ Bit(Entry(InHand)' \in C) = Bit(Entry(InOver) \in C)
        BY <2>2, <1>3, <1>9 DEF Bit
    <2>4. Bit(Entry(InOver) \in C) \in Nat /\ Bit(<<b, t>> \in C) \in Nat
        BY DEF Bit
    <2> QED
        BY <2>1, <2>3, <2>4
<1> QED
    BY <1>3, <1>6, <1>7, <1>8, <1>12 DEF TagRemoved

\* The tag that goes is one that a look-up cannot tell from the felt's.
LEMMA RemoveInv == ASSUME FilterInv, NEW x \in Felts, Remove(x) PROVE FilterInv'
<1>1. PICK i \in Buckets, t \in Tags : i = Index(x) /\ t = Tag(x)
    BY IndexTypes
<1>2. PICK n \in 1 .. KeyCountMax : <<x, n>> \in bin /\ bin' = bin \ {<<x, n>>}
    BY DEF Remove
<1>3. /\ ~insertion.active /\ num_items' = num_items - 1 /\ UNCHANGED refused
      /\ bin \subseteq Copies /\ bin' \subseteq Copies
    BY <1>2 DEF Remove, FilterInv, TypeOK
<1>4. AltIndex(i, t) \in Buckets
    BY IndexTypes
<1>5. PICK b \in {i, AltIndex(i, t)} : TagRemoved(b, t)
    <2>1. CASE SlotsOf(i, t) # {}
        <3>1. table' = [table EXCEPT ![i][First(SlotsOf(i, t))] = NoTag] /\ TryEliminateOverflow
            BY <1>1, <2>1 DEF Remove
        <3> QED
            BY <1>3, <2>1, <3>1, TagDeleted
    <2>2. CASE SlotsOf(i, t) = {} /\ SlotsOf(AltIndex(i, t), t) # {}
        <3>1. /\ table' = [table EXCEPT ![AltIndex(i, t)][First(SlotsOf(AltIndex(i, t), t))] = NoTag]
              /\ TryEliminateOverflow
            BY <1>1, <2>2 DEF Remove
        <3> QED
            BY <1>3, <1>4, <2>2, <3>1, TagDeleted
    <2>3. CASE SlotsOf(i, t) = {} /\ SlotsOf(AltIndex(i, t), t) = {}
        <3>1. /\ FreeOverflow /\ UNCHANGED <<table, insertion>>
              /\ overflow.used /\ overflow.tag = t /\ overflow.index \in {i, AltIndex(i, t)}
            BY <1>1, <2>3 DEF Remove, Contains, InOverflow
        <3>2. TagRemoved(overflow.index, overflow.tag)
            BY <1>3, <3>1, OverflowFreed
        <3>3. PICK b \in {i, AltIndex(i, t)} : b = overflow.index
            BY <3>1
        <3> QED
            BY <3>1, <3>2, <3>3
    <2> QED
        BY <2>1, <2>2, <2>3
<1>6. /\ Cardinality(Held(AllEntries)) \in Nat /\ Cardinality(Held(AllEntries)') \in Nat
      /\ Cardinality(Held(AllEntries)') = Cardinality(Held(AllEntries)) - 1
    <2>1. Bit(<<b, t>> \in AllEntries) = 1
        BY <1>4 DEF Bit, AllEntries
    <2> QED
        BY <1>5, <2>1, AllIsClosed DEF TagRemoved
<1>7. Cardinality(Held(AllEntries)) = num_items
    <2>1. Cardinality(Held(AllEntries)) = num_items + Bit(insertion.active /\ insertion.counted)
        BY DEF FilterInv, Counted
    <2>2. Bit(insertion.active /\ insertion.counted) = 0 /\ num_items \in Nat
        BY <1>3 DEF Bit, FilterInv, TypeOK
    <2> QED
        BY <2>1, <2>2
<1>8. TypeOK'
    <2>1. num_items' \in Nat
        BY <1>3, <1>6, <1>7
    <2> QED
        BY <1>3, <1>5, <2>1 DEF TypeOK, TagRemoved, FilterInv
<1>9. Counted'
    <2>1. Bit(insertion'.active /\ insertion'.counted) = 0
        BY <1>5 DEF Bit, TagRemoved
    <2>2. num_items' + 0 = num_items'
        <3>1. num_items' \in Nat
            BY <1>8 DEF TypeOK
        <3>2. \A k \in Nat : k + 0 = k
            OBVIOUS
        <3> QED
            BY <3>1, <3>2, Zenon
    <2>3. Cardinality(Held(AllEntries)') = num_items'
        BY <1>3, <1>6, <1>7
    <2> QED
        BY <2>1, <2>2, <2>3 DEF Counted
<1>10. Conserved'
    <2> SUFFICES ASSUME ~refused', NEW C \in SUBSET AllEntries, Closed(C)
                 PROVE  Cardinality(Held(C)') = Cardinality(InBin(C)')
        BY DEF Conserved, Closed, AltIndex, IdxBucketLimit
    <2>1. Cardinality(Held(C)) = Cardinality(InBin(C))
        BY <1>3 DEF FilterInv, Conserved
    <2>2. Cardinality(InBin(C)') = Cardinality(InBin(C)) - Bit(Home(x) \in C)
        <3>1. /\ Cardinality(InBin(C)) \in Nat
              /\ Cardinality(InBin(C)') = Cardinality(InBin(C))
                   + (IF <<x, n>> \in bin THEN -1 ELSE 1) * Bit(Home(x) \in C)
            BY <1>2, <1>3, BinChange
        <3> QED
            BY <3>1, <1>2 DEF Bit
    <2>3. <<b, t>> \in C <=> Home(x) \in C
        BY <1>1 DEF Closed, Home
    <2>4. Bit(<<b, t>> \in C) = Bit(Home(x) \in C)
        BY <2>3 DEF Bit
    <2>5. Cardinality(Held(C)') = Cardinality(Held(C)) - Bit(<<b, t>> \in C)
        BY <1>5 DEF TagRemoved
    <2> QED
        BY <2>1, <2>2, <2>4, <2>5
<1> QED
    BY <1>5, <1>8, <1>9, <1>10 DEF FilterInv, TagRemoved
-----------------------------------------------------------------------------
LEMMA NextInv == FilterInv /\ [Next]_vars => FilterInv'
<1> SUFFICES ASSUME FilterInv, [Next]_vars PROVE FilterInv'
    OBVIOUS
<1>1. ASSUME NEW x \in Felts, Add(x) PROVE FilterInv'
    BY <1>1, AddInv
<1>2. ASSUME NEW x \in Felts, Remove(x) PROVE FilterInv'
    BY <1>2, RemoveInv
<1>3. ASSUME NEW j \in Slots, Kick(j) PROVE FilterInv'
    BY <1>3, KickInv
<1>4. CASE UNCHANGED vars
    <2>1. \A C : InBin(C)' = InBin(C)
        BY <1>4 DEF vars, InBin, Home, Index, Tag
    <2>2. \A C : Held(C)' = Held(C)
        BY <1>4, HeldSame DEF vars
    <2> QED
        BY <1>4, <2>1, <2>2 DEF vars, FilterInv, TypeOK, Counted, Conserved
<1> QED
    BY <1>1, <1>2, <1>3, <1>4, InsertTagInv, TryAltIndexInv, GiveUpInv, ClearInv DEF Next

\* What FilterInv says of a filter between two calls
LEMMA InvFindsAll == FilterInv => NoFalseNegative
<1> SUFFICES ASSUME FilterInv, ~insertion.active, ~refused, NEW copy \in bin
             PROVE  Contains(copy[1])
    BY DEF NoFalseNegative
<1>1. copy[1] \in Felts /\ bin \subseteq Copies
    BY DEF FilterInv, TypeOK, Copies
<1>2. PICK i \in Buckets, t \in Tags : i = Index(copy[1]) /\ t = Tag(copy[1])
    BY <1>1, IndexTypes
<1>3. AltIndex(i, t) \in Buckets /\ AltIndex(AltIndex(i, t), t) = i
    BY IndexTypes
<1>4. PICK C \in SUBSET AllEntries : C = {<<i, t>>, <<AltIndex(i, t), t>>}
    <2>1. {<<i, t>>, <<AltIndex(i, t), t>>} \in SUBSET AllEntries
        BY <1>3 DEF AllEntries
    <2> QED
        BY <2>1, Zenon
<1>5. Closed(C)
    <2> SUFFICES ASSUME NEW b \in Buckets, NEW u \in Tags
                 PROVE  <<b, u>> \in C <=> <<AltIndex(b, u), u>> \in C
        BY DEF Closed
    <2>1. u = t => (b = i <=> AltIndex(b, u) = AltIndex(i, t))
        BY <1>3, IndexTypes
    <2>2. u = t => (b = AltIndex(i, t) <=> AltIndex(b, u) = i)
        BY <1>3, IndexTypes
    <2> QED
        BY <2>1, <2>2, <1>4
<1>6. copy \in InBin(C)
    BY <1>2, <1>4 DEF InBin, Home
<1>7. Cardinality(InBin(C)) # 0
    BY <1>1, <1>6, BinIsFinite, FS_EmptySet
<1>8. Held(C) # {}
    BY <1>5, <1>7, FS_EmptySet DEF FilterInv, Conserved
<1>9. PICK p \in Places : Entry(p) \in C
    BY <1>8 DEF Held
<1>10. p # InHand
    BY <1>9, EntryOfHand, PlaceTypes
<1>11. CASE p = InOver
    BY <1>2, <1>4, <1>9, <1>11, EntryOfHand, PlaceTypes DEF Contains, InOverflow
<1>12. CASE p \in Buckets \X Slots
    <2>1. PICK b \in Buckets, j \in Slots : p = <<b, j>>
        BY <1>12
    <2>2. table[b][j] = t /\ b \in {i, AltIndex(i, t)}
        BY <2>1, <1>4, <1>9, EntryOfSlot
    <2> QED
        BY <1>2, <2>2 DEF Contains, SlotsOf
<1> QED
    BY <1>9, <1>10, <1>11, <1>12 DEF Places

LEMMA InvCounts == FilterInv => ItemsAreCounted
<1> SUFFICES ASSUME FilterInv, ~insertion.active PROVE ItemsAreCounted
    BY DEF ItemsAreCounted
<1> DEFINE InTable == {p \in Buckets \X Slots : table[p[1]][p[2]] # NoTag}
<1>1. Cardinality(Held(AllEntries)) = num_items /\ num_items \in Nat
    <2>1. Bit(insertion.active /\ insertion.counted) = 0 /\ num_items \in Nat
        BY DEF Bit, FilterInv, TypeOK
    <2> QED
        BY <2>1 DEF FilterInv, Counted
<1>2. \A p \in Buckets \X Slots : Entry(p) \in AllEntries <=> p \in InTable
    <2> SUFFICES ASSUME NEW b \in Buckets, NEW j \in Slots
                 PROVE  Entry(<<b, j>>) \in AllEntries <=> table[b][j] # NoTag
        OBVIOUS
    <2>1. table[b][j] \in Tags \cup {NoTag}
        BY DEF FilterInv, TypeOK
    <2> QED
        BY <2>1, EntryOfSlot, PlaceTypes DEF AllEntries
<1>3. Entry(InHand) \notin AllEntries /\ (Entry(InOver) \in AllEntries <=> overflow.used)
    BY EntryOfHand, PlaceTypes DEF AllEntries, FilterInv, TypeOK
<1>4. InTable \in SUBSET (Buckets \X Slots)
    OBVIOUS
<1> HIDE DEF InTable
<1>5. InOver \notin InTable
    BY <1>4, PlaceTypes
<1>6. Held(AllEntries) = IF overflow.used THEN InTable \cup {InOver} ELSE InTable
    BY <1>2, <1>3, <1>4, PlaceTypes DEF Held, Places
<1>7. num_items = Cardinality(InTable) + IF overflow.used THEN 1 ELSE 0
    <2>1. IsFiniteSet(InTable)
        BY <1>4, PlaceTypes, FS_Subset DEF Places
    <2>2. Cardinality(InTable) \in Nat
        BY <2>1, FS_CardinalityType
    <2>3. Cardinality(InTable \cup {InOver}) = Cardinality(InTable) + 1
        BY <2>1, <1>5, FS_AddElement
    <2> QED
        BY <1>1, <1>6, <2>2, <2>3
<1>8. ~refused => num_items = Cardinality(bin)
    <2>1. InBin(AllEntries) = bin
        BY IndexTypes DEF InBin, FilterInv, TypeOK, Copies
    <2> QED
        BY <1>1, <2>1, AllIsClosed DEF FilterInv, Conserved
<1> QED
    BY <1>7, <1>8 DEF ItemsAreCounted, InTable

\* Indices stay below the number of buckets, tags stay below 2^bits_per_tag and
\* are never zero, and num_items_ does not fall below zero.
THEOREM FilterTypes == Spec => []TypeOK
<1>1. FilterInv => TypeOK
    BY DEF FilterInv
<1> QED
    BY <1>1, InitInv, NextInv, PTL DEF Spec

\* While no add has been refused, a felt that was added and not removed is
\* found, whatever was kicked, moved to the overflow slot or removed since.
THEOREM NothingAddedIsLost == Spec => []NoFalseNegative
BY InvFindsAll, InitInv, NextInv, PTL DEF Spec

\* The counter of the filter is the number of tags it holds, and of the felts
\* in the bin while no add has been refused.
THEOREM ItemCountIsExact == Spec => []ItemsAreCounted
BY InvCounts, InitInv, NextInv, PTL DEF Spec
=============================================================================
