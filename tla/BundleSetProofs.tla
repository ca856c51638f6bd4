--------------------------- MODULE BundleSetProofs ---------------------------
(***************************************************************************)
(* Lemmas about the bundles of a database that hold whoever works on them: *)
(* SenderDB's callers and tasks, and the processes of SavedDB.             *)
(***************************************************************************)
EXTENDS BundleSet, FiniteSetTheorems, SequenceTheorems, WellFoundedInduction, TLAPS

(***************************************************************************)
(* The contents of the bins.  Whatever a task is given, one item of it     *)
(* takes good bins to good bins: short enough for the powers of a query,   *)
(* and without a felt twice when there are labels.  So this holds of all   *)
(* bundles at all times, calls that fail and orphaned tasks included.      *)
(***************************************************************************)
IsSeq(s) == s \in Seq({s[i] : i \in DOMAIN s})

GoodBin(bin, E) ==
    /\ IsSeq(bin) /\ \A m \in DOMAIN bin : bin[m] \in E
    /\ MaxBinSize > 1 => Len(bin) + 1 <= MaxBinSize
    /\ Labeled => \A m, n \in DOMAIN bin :
                    bin[m].felt = bin[n].felt /\ bin[m].felt # Garbled => m = n

\* `may' tells whether the database may hold stripped bundles, `exact' that
\* no cache was read from a damaged file: one that counts as valid is made
\* from the bins beside it.
GoodBundle(b, E, may, exact) ==
    /\ DOMAIN b = {"bins", "cache", "cache_invalid", "stripped"}
    /\ \A k \in DOMAIN b.bins : GoodBin(b.bins[k], E)
    /\ \A k \in BinIdx : GoodBin(b.cache[k], E)
    /\ b.cache_invalid \in BOOLEAN /\ b.stripped \in BOOLEAN
    /\ b.stripped \/ DOMAIN b.bins = BinIdx
    /\ b.stripped => ~b.cache_invalid /\ may
    /\ exact /\ ~b.stripped /\ ~b.cache_invalid => b.cache = b.bins

\* What the tasks are lists of.
Entries(E) == [data : Seq(E), loc : Nat]

GoodSet(set, E, may, exact) == IsSeq(set) /\ \A j \in DOMAIN set : GoodBundle(set[j], E, may, exact)

LEMMA LeastOf ==
    ASSUME NEW S \in SUBSET Nat, S # {}
    PROVE  Min(S) \in S /\ \A k \in S : Min(S) <= k
<1> DEFINE less == {p \in Nat \X Nat : p[1] < p[2]}
<1>1. PICK n \in S : \A k \in S : ~(<<k, n>> \in less)
    <2>1. IsWellFoundedOn(less, Nat)
        BY NatLessThanWellFounded DEF OpToRel
    <2> HIDE DEF less
    <2> QED
        BY <2>1, WFMin, Zenon
<1>2. \A k \in S : n <= k
    <2> SUFFICES ASSUME NEW k \in S, k < n PROVE FALSE
        OBVIOUS
    <2>1. <<k, n>> \in less
        OBVIOUS
    <2> QED
        BY <1>1, <2>1
<1> QED
    BY <1>1, <1>2 DEF Min

LEMMA GreatestOf ==
    ASSUME NEW n \in Nat, NEW S \in SUBSET (0 .. n), S # {}
    PROVE  Max(S) \in S /\ \A k \in S : k <= Max(S)
<1> DEFINE back == {n - k : k \in S}
<1>1. back \in SUBSET Nat /\ back # {}
    OBVIOUS
<1>2. Min(back) \in back /\ \A k \in back : Min(back) <= k
    BY <1>1, LeastOf
<1>3. PICK m \in S : Min(back) = n - m
    BY <1>2
<1>4. \A k \in S : m >= k
    <2> SUFFICES ASSUME NEW k \in S PROVE m >= k
        OBVIOUS
    <2>1. n - m <= n - k
        BY <1>2, <1>3
    <2> QED
        BY <2>1
<1> QED
    BY <1>4 DEF Max

LEMMA TupleIsSeq ==
    ASSUME NEW S, NEW n \in Nat, NEW s \in [1 .. n -> S] PROVE s \in Seq(S)
OBVIOUS

LEMMA SeqIsSeq == ASSUME NEW S, NEW s \in Seq(S) PROVE IsSeq(s)
BY DEF IsSeq

LEMMA IsSeqFacts ==
    ASSUME NEW s, IsSeq(s)
    PROVE  Len(s) \in Nat /\ DOMAIN s = 1 .. Len(s)
BY DEF IsSeq

LEMMA AppendToSeq ==
    ASSUME NEW s, IsSeq(s), NEW e
    PROVE  /\ IsSeq(Append(s, e)) /\ Len(Append(s, e)) = Len(s) + 1
           /\ DOMAIN Append(s, e) = 1 .. Len(s) + 1
           /\ \A i \in 1 .. Len(s) : Append(s, e)[i] = s[i]
           /\ Append(s, e)[Len(s) + 1] = e
<1> DEFINE S == {s[i] : i \in DOMAIN s}
<1>1. s \in Seq(S \cup {e}) /\ e \in S \cup {e}
    BY DEF IsSeq
<1> HIDE DEF S
<1>2. Append(s, e) \in Seq(S \cup {e})
    BY <1>1
<1>3. /\ Len(Append(s, e)) = Len(s) + 1
      /\ \A i \in 1 .. Len(s) : Append(s, e)[i] = s[i]
      /\ Append(s, e)[Len(s) + 1] = e
    BY <1>1
<1>4. DOMAIN Append(s, e) = 1 .. Len(s) + 1
    BY <1>1
<1>5. IsSeq(Append(s, e))
    BY <1>2, SeqIsSeq
<1> QED
    BY <1>3, <1>4, <1>5

\* An element of a set given by its position.
LEMMA UpdateSeq ==
    ASSUME NEW s, IsSeq(s), NEW i \in DOMAIN s, NEW e
    PROVE  /\ IsSeq([s EXCEPT ![i] = e]) /\ Len([s EXCEPT ![i] = e]) = Len(s)
           /\ DOMAIN [s EXCEPT ![i] = e] = DOMAIN s
           /\ [s EXCEPT ![i] = e][i] = e
           /\ \A j \in DOMAIN s \ {i} : [s EXCEPT ![i] = e][j] = s[j]
<1> DEFINE S == {s[k] : k \in DOMAIN s}
<1>1. s \in Seq(S \cup {e}) /\ e \in S \cup {e}
    BY DEF IsSeq
<1> HIDE DEF S
<1>2. [s EXCEPT ![i] = e] \in Seq(S \cup {e}) /\ Len([s EXCEPT ![i] = e]) = Len(s)
    BY <1>1
<1> QED
    BY <1>1, <1>2, SeqIsSeq

\* What the second of two concatenated sequences holds.
LEMMA ConcatAt ==
    ASSUME NEW S, NEW s \in Seq(S), NEW t \in Seq(S), NEW j \in Len(s) + 1 .. Len(s) + Len(t)
    PROVE  (s \o t)[j] = t[j - Len(s)]
OBVIOUS

\* Two sequences are sequences over one set.
LEMMA InOneSeq ==
    ASSUME NEW s, IsSeq(s), NEW t, IsSeq(t)
    PROVE  \E S : s \in Seq(S) /\ t \in Seq(S)
<1> DEFINE S == {s[i] : i \in DOMAIN s} \cup {t[i] : i \in DOMAIN t}
<1>1. s \in Seq(S) /\ t \in Seq(S)
    <2>1. \A i \in 1 .. Len(s) : s[i] \in S
        BY IsSeqFacts
    <2>2. \A i \in 1 .. Len(t) : t[i] \in S
        BY IsSeqFacts
    <2>3. s = [i \in 1 .. Len(s) |-> s[i]] /\ t = [i \in 1 .. Len(t) |-> t[i]]
        BY DEF IsSeq
    <2> HIDE DEF S
    <2>4. s \in [1 .. Len(s) -> S] /\ t \in [1 .. Len(t) -> S]
        BY <2>1, <2>2, <2>3
    <2> QED
        BY <2>4, TupleIsSeq, IsSeqFacts
<1> QED
    BY <1>1

LEMMA ConcatSeqs ==
    ASSUME NEW s, IsSeq(s), NEW t, IsSeq(t)
    PROVE  /\ IsSeq(s \o t) /\ Len(s \o t) = Len(s) + Len(t)
           /\ DOMAIN (s \o t) = 1 .. Len(s) + Len(t)
           /\ \A i \in DOMAIN s : (s \o t)[i] = s[i]
<1>1. PICK S : s \in Seq(S) /\ t \in Seq(S)
    BY InOneSeq, Zenon
<1>2. s \o t \in Seq(S) /\ Len(s \o t) = Len(s) + Len(t)
    BY <1>1
<1>3. DOMAIN (s \o t) = 1 .. Len(s) + Len(t)
    BY <1>2
<1>4. \A i \in DOMAIN s : (s \o t)[i] = s[i]
    BY <1>1
<1> QED
    BY <1>2, <1>3, <1>4, SeqIsSeq

\* Nothing is lost when the head of a list moves to the end of another.
LEMMA MoveHead ==
    ASSUME NEW s, IsSeq(s), NEW t, IsSeq(t), t # <<>>
    PROVE  /\ IsSeq(Append(s, Head(t))) /\ IsSeq(Tail(t))
           /\ Append(s, Head(t)) \o Tail(t) = s \o t
<1>1. PICK S : s \in Seq(S) /\ t \in Seq(S)
    BY InOneSeq, Zenon
<1>2. Head(t) \in S /\ Tail(t) \in Seq(S) /\ Len(Tail(t)) = Len(t) - 1
    BY <1>1, HeadTailProperties
<1> DEFINE u == Append(s, Head(t))
<1>3. /\ u \in Seq(S) /\ Len(u) = Len(s) + 1
      /\ \A i \in 1 .. Len(s) : u[i] = s[i]
      /\ u[Len(s) + 1] = t[1]
    BY <1>1, <1>2, AppendProperties
<1> HIDE DEF u
<1>4. u \o Tail(t) \in Seq(S) /\ s \o t \in Seq(S)
    BY <1>1, <1>2, <1>3
<1>5. Len(u \o Tail(t)) = Len(s) + Len(t) /\ Len(s \o t) = Len(s) + Len(t) /\ Len(s) \in Nat /\ Len(t) \in Nat
    <2>1. Len(s) \in Nat /\ Len(t) \in Nat
        BY <1>1
    <2>2. Len(u \o Tail(t)) = Len(u) + Len(Tail(t)) /\ Len(s \o t) = Len(s) + Len(t)
        BY <1>1, <1>2, <1>3, ConcatProperties, Zenon
    <2>3. Len(u) = Len(s) + 1 /\ Len(Tail(t)) = Len(t) - 1
        BY <1>2, <1>3
    <2> DEFINE a == Len(s)
               b == Len(t)
               x == Len(u)
               y == Len(Tail(t))
    <2>4. a \in Nat /\ b \in Nat /\ x = a + 1 /\ y = b - 1
        BY <2>1, <2>3
    <2>5. Len(u \o Tail(t)) = x + y /\ Len(s \o t) = a + b
        BY <2>2
    <2> HIDE DEF a, b, x, y
    <2>6. x + y = a + b
        BY <2>4
    <2> QED
        BY <2>1, <2>5, <2>6 DEF a, b
<1>6. ASSUME NEW i \in 1 .. Len(s) + Len(t) PROVE (u \o Tail(t))[i] = (s \o t)[i]
    <2>1. CASE i <= Len(s)
        BY <1>1, <1>2, <1>3, <1>5, <2>1
    <2>2. CASE i = Len(s) + 1
        BY <1>1, <1>2, <1>3, <1>5, <2>2
    <2>3. CASE i > Len(s) + 1
        <3>1. (u \o Tail(t))[i] = Tail(t)[i - (Len(s) + 1)]
            BY <1>2, <1>3, <1>5, <2>3, ConcatAt
        <3>2. Tail(t)[i - (Len(s) + 1)] = t[i - (Len(s) + 1) + 1]
            <4>1. i - (Len(s) + 1) \in 1 .. Len(Tail(t))
                BY <1>2, <1>5, <2>3
            <4> QED
                BY <1>1, <4>1, HeadTailProperties
        <3>3. (s \o t)[i] = t[i - Len(s)]
            BY <1>1, <1>5, <2>3, ConcatAt
        <3>4. i - (Len(s) + 1) + 1 = i - Len(s)
            BY <1>5
        <3> QED
            BY <3>1, <3>2, <3>3, <3>4
    <2> QED
        BY <1>5, <2>1, <2>2, <2>3
<1>7. u \o Tail(t) = s \o t
    BY <1>4, <1>5, <1>6, SeqEqual
<1> QED
    BY <1>2, <1>3, <1>7, SeqIsSeq DEF u

LEMMA FeltPosIs ==
    ASSUME NEW bin, IsSeq(bin), NEW felt
    PROVE  /\ FeltPos(bin, felt) \in Nat
           /\ FeltPos(bin, felt) > 0 =>
                FeltPos(bin, felt) \in DOMAIN bin /\ bin[FeltPos(bin, felt)].felt = felt
           /\ FeltPos(bin, felt) = 0 => \A i \in DOMAIN bin : bin[i].felt # felt
<1> DEFINE at == {i \in 1 .. Len(bin) : bin[i].felt = felt}
<1>1. Len(bin) \in Nat /\ DOMAIN bin = 1 .. Len(bin)
    BY IsSeqFacts
<1>2. FeltPos(bin, felt) = IF at # {} THEN Min(at) ELSE 0
    BY DEF FeltPos, SelectInSeq
<1>3. CASE at = {}
    BY <1>1, <1>2, <1>3
<1>4. CASE at # {}
    <2>1. at \in SUBSET Nat
        BY <1>1
    <2>2. Min(at) \in at
        BY <1>4, <2>1, LeastOf
    <2>3. Min(at) \in 1 .. Len(bin) /\ bin[Min(at)].felt = felt
        BY <2>2
    <2> HIDE DEF at
    <2> QED
        BY <1>1, <1>2, <1>4, <2>3
<1> QED
    BY <1>3, <1>4

LEMMA AppendToBin ==
    ASSUME NEW E, NEW bin, GoodBin(bin, E), NEW e \in E,
           MaxBinSize > 1 => Len(bin) + 1 <= MaxBinSize - 1,
           Labeled => FeltPos(bin, e.felt) = 0
    PROVE  GoodBin(Append(bin, e), E)
<1> DEFINE more == Append(bin, e)
<1>1. IsSeq(bin) /\ Len(bin) \in Nat /\ DOMAIN bin = 1 .. Len(bin)
    BY IsSeqFacts DEF GoodBin
<1>2. /\ IsSeq(more) /\ Len(more) = Len(bin) + 1 /\ DOMAIN more = 1 .. Len(bin) + 1
      /\ \A i \in 1 .. Len(bin) : more[i] = bin[i]
      /\ more[Len(bin) + 1] = e
    BY <1>1, AppendToSeq
<1> HIDE DEF more
<1>3. MaxBinSize > 1 => Len(more) + 1 <= MaxBinSize
    BY <1>1, <1>2, BinBundleAssumption
<1>4. ASSUME Labeled, NEW m \in DOMAIN more, NEW n \in DOMAIN more, more[m].felt = more[n].felt,
             more[m].felt # Garbled
      PROVE  m = n
    <2>1. \A i \in DOMAIN bin : bin[i].felt # e.felt
        BY <1>1, <1>4, FeltPosIs
    <2> QED
        BY <1>1, <1>2, <1>4, <2>1 DEF GoodBin
<1>5. \A m \in DOMAIN more : more[m] \in E
    BY <1>1, <1>2 DEF GoodBin
<1> QED
    BY <1>2, <1>3, <1>4, <1>5, Zenon DEF GoodBin, more

LEMMA FirstInBin == ASSUME NEW E, NEW e \in E PROVE GoodBin(Append(<<>>, e), E)
<1>1. IsSeq(<<>>) /\ Len(<<>>) = 0 /\ DOMAIN <<>> = {}
    BY DEF IsSeq
<1> DEFINE more == Append(<<>>, e)
<1>2. IsSeq(more) /\ Len(more) = Len(<<>>) + 1 /\ DOMAIN more = 1 .. Len(<<>>) + 1
      /\ more[Len(<<>>) + 1] = e
    BY <1>1, AppendToSeq, Zenon
<1> HIDE DEF more
<1>3. MaxBinSize > 1 => Len(more) + 1 <= MaxBinSize
    BY <1>1, <1>2, BinBundleAssumption
<1>4. DOMAIN more = {1} /\ more[1] = e
    BY <1>1, <1>2
<1>5. \A m, n \in DOMAIN more : m = n
    BY <1>4
<1>6. \A m \in DOMAIN more : more[m] \in E
    BY <1>4
<1> QED
    BY <1>2, <1>3, <1>5, <1>6, Zenon DEF GoodBin, more

LEMMA EmptyBinIsGood == ASSUME NEW E PROVE GoodBin(<<>>, E)
BY BinBundleAssumption DEF GoodBin, IsSeq

LEMMA ReplaceInBin ==
    ASSUME NEW E, NEW bin, GoodBin(bin, E), NEW e \in E, FeltPos(bin, e.felt) > 0
    PROVE  GoodBin(ReplaceAt(bin, FeltPos(bin, e.felt), e), E)
<1> DEFINE i == FeltPos(bin, e.felt)
           new == ReplaceAt(bin, i, e)
<1>1. IsSeq(bin) /\ i \in DOMAIN bin /\ bin[i].felt = e.felt
    BY FeltPosIs DEF GoodBin
<1> HIDE DEF i
<1>2. /\ IsSeq(new) /\ Len(new) = Len(bin) /\ DOMAIN new = DOMAIN bin
      /\ new[i] = e /\ \A j \in DOMAIN bin \ {i} : new[j] = bin[j]
    <2>1. new = [bin EXCEPT ![i] = e]
        BY DEF ReplaceAt
    <2> HIDE DEF new
    <2> QED
        BY <1>1, <2>1, UpdateSeq, Zenon
<1> HIDE DEF new
<1>3. \A j \in DOMAIN bin : new[j].felt = bin[j].felt
    BY <1>1, <1>2
<1>4. GoodBin(new, E)
    BY <1>2, <1>3 DEF GoodBin
<1> QED
    BY <1>4 DEF i, new

LEMMA RemoveFromBin ==
    ASSUME NEW E, NEW bin, GoodBin(bin, E), NEW i \in DOMAIN bin
    PROVE  GoodBin(RemoveAt(bin, i), E)
<1> DEFINE S == {bin[j] : j \in DOMAIN bin}
           less == RemoveAt(bin, i)
<1>1. bin \in Seq(S) /\ Len(bin) \in Nat /\ DOMAIN bin = 1 .. Len(bin)
    BY IsSeqFacts DEF GoodBin, IsSeq
<1> HIDE DEF S
<1> DEFINE front == SubSeq(bin, 1, i - 1)
           back == SubSeq(bin, i + 1, Len(bin))
<1>2. /\ front \in Seq(S) /\ Len(front) = i - 1
      /\ \A j \in 1 .. i - 1 : front[j] = bin[j]
    BY <1>1
<1>3. /\ back \in Seq(S) /\ Len(back) = Len(bin) - i
      /\ \A j \in 1 .. Len(bin) - i : back[j] = bin[j + i]
    BY <1>1
<1>4. less = front \o back
    BY DEF RemoveAt
<1> HIDE DEF front, back, less
<1>5. /\ less \in Seq(S) /\ Len(less) = Len(bin) - 1
      /\ \A j \in 1 .. Len(bin) - 1 : less[j] = IF j < i THEN bin[j] ELSE bin[j + 1]
    <2>1. less \in Seq(S) /\ Len(less) = Len(front) + Len(back)
        BY <1>2, <1>3, <1>4
    <2>2. Len(front) + Len(back) = Len(bin) - 1
        BY <1>1, <1>2, <1>3
    <2>3. ASSUME NEW j \in 1 .. Len(bin) - 1 PROVE less[j] = IF j < i THEN bin[j] ELSE bin[j + 1]
        <3>1. CASE j < i
            BY <1>1, <1>2, <1>3, <1>4, <3>1
        <3>2. CASE j >= i
            <4>1. j - (i - 1) \in 1 .. Len(bin) - i /\ j - (i - 1) + i = j + 1
                BY <1>1, <3>2
            <4>2. j \in Len(front) + 1 .. Len(front) + Len(back)
                BY <1>1, <1>2, <1>3, <3>2
            <4>3. less[j] = back[j - Len(front)]
                BY <1>2, <1>3, <1>4, <4>2, ConcatAt
            <4>4. less[j] = back[j - (i - 1)] /\ back[j - (i - 1)] = bin[j - (i - 1) + i]
                BY <1>2, <1>3, <4>1, <4>3
            <4> QED
                BY <3>2, <4>1, <4>4
        <3> QED
            BY <1>1, <3>1, <3>2
    <2> QED
        BY <2>1, <2>2, <2>3
<1>6. MaxBinSize > 1 => Len(less) + 1 <= MaxBinSize
    BY <1>1, <1>5, BinBundleAssumption DEF GoodBin
<1>7. ASSUME Labeled, NEW m \in DOMAIN less, NEW n \in DOMAIN less, less[m].felt = less[n].felt,
             less[m].felt # Garbled
      PROVE  m = n
    <2> DEFINE old(j) == IF j < i THEN j ELSE j + 1
    <2>1. DOMAIN less = 1 .. Len(bin) - 1
        BY <1>1, <1>5
    <2>2. \A j \in 1 .. Len(bin) - 1 : old(j) \in DOMAIN bin /\ less[j] = bin[old(j)]
        BY <1>1, <1>5
    <2>3. /\ bin[old(m)].felt = bin[old(n)].felt /\ bin[old(m)].felt # Garbled
          /\ old(m) \in DOMAIN bin /\ old(n) \in DOMAIN bin
        <3> HIDE DEF old
        <3>1. /\ old(m) \in DOMAIN bin /\ less[m] = bin[old(m)]
              /\ old(n) \in DOMAIN bin /\ less[n] = bin[old(n)]
            BY <1>7, <2>1, <2>2, Zenon
        <3> QED
            BY <1>7, <3>1, Zenon
    <2>4. old(m) = old(n)
        BY <1>7, <2>3, Zenon DEF GoodBin
    <2> QED
        BY <1>1, <2>1, <2>4
<1>8. IsSeq(less)
    BY <1>5, SeqIsSeq
<1>9. \A m \in DOMAIN less : less[m] \in E
    <2>1. S \subseteq E
        BY DEF S, GoodBin
    <2>2. \A m \in DOMAIN less : less[m] \in S
        BY <1>5
    <2> QED
        BY <2>1, <2>2
<1> QED
    BY <1>6, <1>7, <1>8, <1>9, Zenon DEF GoodBin, less

(***************************************************************************)
(* The bundle operations on good bundles                                   *)
(***************************************************************************)
LEMMA SameFields ==
    ASSUME NEW E, NEW may, NEW exact, NEW b, GoodBundle(b, E, may, exact), ~b.stripped, NEW bins, DOMAIN bins = BinIdx,
           \A k \in BinIdx : GoodBin(bins[k], E)
    PROVE  GoodBundle([b EXCEPT !.bins = bins, !.cache_invalid = TRUE], E, may, exact)
<1> DEFINE c == [b EXCEPT !.bins = bins, !.cache_invalid = TRUE]
<1>1. DOMAIN c = {"bins", "cache", "cache_invalid", "stripped"} /\ c.bins = bins
      /\ c.cache = b.cache /\ c.stripped = b.stripped /\ c.cache_invalid = TRUE
    BY DEF GoodBundle
<1> HIDE DEF c
<1> QED
    BY <1>1 DEF GoodBundle, c

LEMMA NewBundleIsGood == ASSUME NEW E, NEW may, NEW exact PROVE GoodBundle(NewBundle, E, may, exact)
BY EmptyBinIsGood DEF GoodBundle, NewBundle, EmptyBins

LEMMA InsertFits ==
    ASSUME NEW E, NEW may, NEW exact, NEW b, GoodBundle(b, E, may, exact), ~b.stripped, NEW data, NEW start,
           MultiInsertDryRun(b, data, start) \in 1 .. MaxBinSize - 1
    PROVE  /\ Covered(data, start) \subseteq BinIdx
           /\ \A k \in Covered(data, start) :
                /\ Len(b.bins[k]) + 1 <= MaxBinSize - 1
                /\ Labeled => FeltPos(b.bins[k], FeltAt(data, start, k)) = 0
<1> DEFINE sizes == {Len(b.bins[k]) + 1 : k \in Covered(data, start)}
<1>1. MaxBinSize \in Nat /\ MaxBinSize > 1
    BY BinBundleAssumption
<1>2. Fits(data, start) /\ Max(sizes) \in 1 .. MaxBinSize - 1
      /\ ~(Labeled /\ \E k \in Covered(data, start) :
                         FeltPos(b.bins[k], FeltAt(data, start, k)) > 0)
    BY SMT DEF MultiInsertDryRun
<1>3. Covered(data, start) \subseteq BinIdx
    BY <1>2 DEF Fits
<1>4. \A k \in Covered(data, start) : GoodBin(b.bins[k], E)
    BY <1>3 DEF GoodBundle
<1>5. \A k \in Covered(data, start) : IsSeq(b.bins[k]) /\ Len(b.bins[k]) \in Nat
    BY <1>4, IsSeqFacts DEF GoodBin
<1>6. sizes \in SUBSET (0 .. MaxBinSize)
    BY <1>1, <1>4, <1>5 DEF GoodBin
<1>7. ASSUME NEW k \in Covered(data, start)
      PROVE  /\ Len(b.bins[k]) + 1 <= MaxBinSize - 1
             /\ Labeled => FeltPos(b.bins[k], FeltAt(data, start, k)) = 0
    <2>1. Len(b.bins[k]) + 1 \in sizes
        OBVIOUS
    <2> HIDE DEF sizes
    <2>2. Len(b.bins[k]) + 1 <= Max(sizes)
        BY <1>1, <1>6, <2>1, GreatestOf
    <2>3. FeltPos(b.bins[k], FeltAt(data, start, k)) \in Nat
        BY <1>5, FeltPosIs
    <2>4. Labeled => ~(FeltPos(b.bins[k], FeltAt(data, start, k)) > 0)
        BY <1>2
    <2>5. Max(sizes) <= MaxBinSize - 1 /\ Max(sizes) \in Nat
        BY <1>1, <1>2
    <2> QED
        BY <1>1, <1>5, <2>2, <2>3, <2>4, <2>5
<1> QED
    BY <1>3, <1>7

LEMMA CoveredIsData ==
    ASSUME NEW E, NEW data \in Seq(E), NEW start \in Nat, NEW k \in Covered(data, start)
    PROVE  data[k - start + 1] \in E
BY DEF Covered

\* multi_insert_for_real where the dry run allows it
LEMMA InsertForRealIsGood ==
    ASSUME NEW E, NEW may, NEW exact, NEW b, GoodBundle(b, E, may, exact), ~b.stripped,
           NEW data \in Seq(E), NEW start \in Nat,
           MultiInsertDryRun(b, data, start) \in 1 .. MaxBinSize - 1
    PROVE  GoodBundle(MultiInsertForReal(b, data, start), E, may, exact)
<1> DEFINE bins == [k \in BinIdx |-> IF k \in Covered(data, start)
                                     THEN Append(b.bins[k], data[k - start + 1])
                                     ELSE b.bins[k]]
<1>1. ASSUME NEW k \in BinIdx PROVE GoodBin(bins[k], E)
    <2>1. GoodBin(b.bins[k], E)
        BY DEF GoodBundle
    <2>2. CASE k \in Covered(data, start)
        <3> DEFINE e == data[k - start + 1]
        <3>0. e \in E
            BY <2>2, CoveredIsData
        <3>1. (MaxBinSize > 1 => Len(b.bins[k]) + 1 <= MaxBinSize - 1)
              /\ (Labeled => FeltPos(b.bins[k], e.felt) = 0)
            BY <2>2, InsertFits DEF FeltAt
        <3> HIDE DEF e
        <3>2. GoodBin(Append(b.bins[k], e), E)
            BY <2>1, <3>0, <3>1, AppendToBin
        <3> QED
            BY <2>2, <3>2 DEF e
    <2> QED
        BY <2>1, <2>2
<1>2. DOMAIN bins = BinIdx
    OBVIOUS
<1>3. MultiInsertForReal(b, data, start) = [b EXCEPT !.bins = bins, !.cache_invalid = TRUE]
    BY DEF MultiInsertForReal
<1> HIDE DEF bins
<1>4. GoodBundle([b EXCEPT !.bins = bins, !.cache_invalid = TRUE], E, may, exact)
    BY <1>1, <1>2, <1>3, SameFields, Zenon
<1> QED
    BY <1>2, <1>3, <1>4, Zenon

\* into a fresh bundle, whatever the dry run would say
LEMMA FirstInsertIsGood ==
    ASSUME NEW E, NEW may, NEW exact, NEW data \in Seq(E), NEW start \in Nat
    PROVE  GoodBundle(MultiInsertForReal(NewBundle, data, start), E, may, exact)
<1> DEFINE bins == [k \in BinIdx |-> IF k \in Covered(data, start)
                                     THEN Append(NewBundle.bins[k], data[k - start + 1])
                                     ELSE NewBundle.bins[k]]
<1>1. \A k \in BinIdx : NewBundle.bins[k] = <<>>
    BY DEF NewBundle, EmptyBins
<1>2. \A k \in BinIdx : GoodBin(bins[k], E)
    BY <1>1, CoveredIsData, FirstInBin, EmptyBinIsGood
<1>3. MultiInsertForReal(NewBundle, data, start)
        = [NewBundle EXCEPT !.bins = bins, !.cache_invalid = TRUE]
    BY DEF MultiInsertForReal
<1>4. DOMAIN bins = BinIdx
    OBVIOUS
<1> HIDE DEF bins
<1>5. GoodBundle([NewBundle EXCEPT !.bins = bins, !.cache_invalid = TRUE], E, may, exact)
    <2>1. ~NewBundle.stripped
        BY DEF NewBundle
    <2> QED
        BY <1>2, <1>4, <2>1, NewBundleIsGood, SameFields, Zenon
<1> QED
    BY <1>3, <1>5, Zenon

LEMMA OverwriteIsGood ==
    ASSUME NEW E, NEW may, NEW exact, NEW b, GoodBundle(b, E, may, exact), ~b.stripped,
           NEW data \in Seq(E), NEW start \in Nat, Holds(b.bins, data, start)
    PROVE  GoodBundle(MultiOverwrite(b, data, start), E, may, exact)
<1> DEFINE bins == [k \in BinIdx |->
                      IF k \in Covered(data, start) /\ Labeled
                      THEN ReplaceAt(b.bins[k], FeltPos(b.bins[k], FeltAt(data, start, k)),
                                     data[k - start + 1])
                      ELSE b.bins[k]]
<1>1. ASSUME NEW k \in BinIdx PROVE GoodBin(bins[k], E)
    <2>1. GoodBin(b.bins[k], E)
        BY DEF GoodBundle
    <2>2. CASE k \in Covered(data, start)
        <3> DEFINE e == data[k - start + 1]
        <3>0. e \in E
            BY <2>2, CoveredIsData
        <3>1. FeltAt(data, start, k) = e.felt /\ FeltPos(b.bins[k], e.felt) > 0
            BY <2>2 DEF Holds, FeltAt
        <3> HIDE DEF e
        <3>2. GoodBin(ReplaceAt(b.bins[k], FeltPos(b.bins[k], e.felt), e), E)
            BY <2>1, <3>0, <3>1, ReplaceInBin
        <3> QED
            BY <2>1, <3>1, <3>2 DEF e
    <2> QED
        BY <2>1, <2>2
<1>2. MultiOverwrite(b, data, start) = [b EXCEPT !.bins = bins, !.cache_invalid = TRUE]
    BY DEF MultiOverwrite
<1>3. DOMAIN bins = BinIdx
    OBVIOUS
<1> HIDE DEF bins
<1>4. GoodBundle([b EXCEPT !.bins = bins, !.cache_invalid = TRUE], E, may, exact)
    BY <1>1, <1>2, <1>3, SameFields, Zenon
<1> QED
    BY <1>2, <1>3, <1>4, Zenon

LEMMA RemoveIsGood ==
    ASSUME NEW E, NEW may, NEW exact, NEW b, GoodBundle(b, E, may, exact), ~b.stripped, NEW data, NEW start,
           Holds(b.bins, data, start)
    PROVE  GoodBundle(MultiRemove(b, data, start), E, may, exact)
<1> DEFINE bins == [k \in BinIdx |->
                      IF k \in Covered(data, start)
                      THEN RemoveAt(b.bins[k], FeltPos(b.bins[k], FeltAt(data, start, k)))
                      ELSE b.bins[k]]
<1>1. ASSUME NEW k \in BinIdx PROVE GoodBin(bins[k], E)
    <2>1. GoodBin(b.bins[k], E)
        BY DEF GoodBundle
    <2>2. CASE k \in Covered(data, start)
        <3> DEFINE i == FeltPos(b.bins[k], FeltAt(data, start, k))
        <3>1. i > 0 /\ IsSeq(b.bins[k])
            BY <2>1, <2>2 DEF Holds, GoodBin
        <3>2. i \in DOMAIN b.bins[k]
            BY <3>1, FeltPosIs
        <3> HIDE DEF i
        <3>3. GoodBin(RemoveAt(b.bins[k], i), E)
            BY <2>1, <3>2, RemoveFromBin
        <3> QED
            BY <2>2, <3>3 DEF i
    <2> QED
        BY <2>1, <2>2
<1>2. MultiRemove(b, data, start) = [b EXCEPT !.bins = bins, !.cache_invalid = TRUE]
    BY DEF MultiRemove
<1>3. DOMAIN bins = BinIdx
    OBVIOUS
<1> HIDE DEF bins
<1>4. GoodBundle([b EXCEPT !.bins = bins, !.cache_invalid = TRUE], E, may, exact)
    BY <1>1, <1>2, <1>3, SameFields, Zenon
<1> QED
    BY <1>2, <1>3, <1>4, Zenon

LEMMA RegenIsFresh == ASSUME NEW b PROVE ~RegenCache(b).cache_invalid
BY DEF RegenCache

LEMMA RegenIsGood == ASSUME NEW E, NEW may, NEW exact, NEW b, GoodBundle(b, E, may, exact) PROVE GoodBundle(RegenCache(b), E, may, exact)
BY DEF GoodBundle, RegenCache

LEMMA StripIsGood ==
    ASSUME NEW E, NEW may, may, NEW exact, NEW b, GoodBundle(b, E, may, exact) PROVE GoodBundle(StripBundle(b), E, may, exact)
<1>1. GoodBundle(RegenCache(b), E, may, exact) /\ ~RegenCache(b).cache_invalid
    BY RegenIsGood, RegenIsFresh
<1>2. /\ DOMAIN StripBundle(b) = {"bins", "cache", "cache_invalid", "stripped"}
      /\ StripBundle(b).bins = <<>> /\ StripBundle(b).stripped = TRUE
      /\ StripBundle(b).cache = RegenCache(b).cache
      /\ StripBundle(b).cache_invalid = RegenCache(b).cache_invalid
    BY DEF StripBundle
<1>3. DOMAIN <<>> = {}
    OBVIOUS
<1> HIDE DEF StripBundle, RegenCache
<1> QED
    BY <1>1, <1>2, <1>3 DEF GoodBundle

(***************************************************************************)
(* One item of a task takes a good set of bundles to a good one            *)
(***************************************************************************)
LEMMA AppendToSet ==
    ASSUME NEW E, NEW may, NEW exact, NEW set, GoodSet(set, E, may, exact), NEW b, GoodBundle(b, E, may, exact)
    PROVE  GoodSet(Append(set, b), E, may, exact)
<1> DEFINE more == Append(set, b)
<1>1. IsSeq(set) /\ Len(set) \in Nat /\ DOMAIN set = 1 .. Len(set)
    BY IsSeqFacts DEF GoodSet
<1>2. /\ IsSeq(more) /\ DOMAIN more = 1 .. Len(set) + 1
      /\ \A i \in 1 .. Len(set) : more[i] = set[i]
      /\ more[Len(set) + 1] = b
    BY <1>1, AppendToSeq
<1> HIDE DEF more
<1>3. \A j \in DOMAIN more : j = Len(set) + 1 \/ j \in DOMAIN set
    BY <1>1, <1>2
<1>4. \A j \in DOMAIN more : GoodBundle(more[j], E, may, exact)
    BY <1>1, <1>2, <1>3 DEF GoodSet
<1> QED
    BY <1>2, <1>4, Zenon DEF GoodSet, more

LEMMA UpdateSet ==
    ASSUME NEW E, NEW may, NEW exact, NEW set, GoodSet(set, E, may, exact), NEW i \in DOMAIN set, NEW b, GoodBundle(b, E, may, exact)
    PROVE  GoodSet([set EXCEPT ![i] = b], E, may, exact)
<1> DEFINE new == [set EXCEPT ![i] = b]
<1>1. /\ IsSeq(new) /\ DOMAIN new = DOMAIN set /\ new[i] = b
      /\ \A j \in DOMAIN set \ {i} : new[j] = set[j]
    BY UpdateSeq DEF GoodSet
<1> HIDE DEF new
<1>2. \A j \in DOMAIN new : GoodBundle(new[j], E, may, exact)
    BY <1>1 DEF GoodSet
<1> QED
    BY <1>1, <1>2, Zenon DEF GoodSet, new

LEMMA EmptySetIsGood == ASSUME NEW E, NEW may, NEW exact PROVE GoodSet(<<>>, E, may, exact)
BY DEF GoodSet, IsSeq

\* The recursion of NonEmptyBundles has a solution, and it keeps bundles of
\* the set only.
Kept(set, g, n) ==
    g = [j \in 0 .. n |-> IF j = 0 THEN <<>>
                          ELSE IF Empty(set[j]) THEN g[j - 1] ELSE Append(g[j - 1], set[j])]

LEMMA KeptExists == ASSUME NEW set, NEW n \in Nat PROVE \E g : Kept(set, g, n)
<1> DEFINE less == {p \in Nat \X Nat : p[1] < p[2]}
           bad == {m \in Nat : ~ \E g : Kept(set, g, m)}
<1>1. IsWellFoundedOn(less, Nat)
    BY NatLessThanWellFounded DEF OpToRel
<1>2. SUFFICES ASSUME bad # {} PROVE FALSE
    OBVIOUS
<1>3. bad \subseteq Nat
    OBVIOUS
<1> HIDE DEF less, bad
<1>4. PICK m \in bad : \A k \in bad : ~(<<k, m>> \in less)
    BY <1>1, <1>2, <1>3, WFMin, Zenon
<1>5. m \in Nat /\ ~ \E g : Kept(set, g, m)
    BY <1>4 DEF bad
<1>6. CASE m = 0
    <2> DEFINE g == [j \in 0 .. 0 |-> <<>>]
    <2>1. g = [j \in 0 .. 0 |-> IF j = 0 THEN <<>>
                ELSE IF Empty(set[j]) THEN g[j - 1] ELSE Append(g[j - 1], set[j])]
        OBVIOUS
    <2> HIDE DEF g
    <2>2. Kept(set, g, 0)
        BY <2>1, Zenon DEF Kept
    <2> QED
        BY <1>5, <1>6, <2>2
<1>7. CASE m # 0
    <2>1. m - 1 \in Nat /\ <<m - 1, m>> \in less
        BY <1>5, <1>7 DEF less
    <2>2. m - 1 \notin bad
        BY <1>4, <2>1
    <2>3. PICK g : Kept(set, g, m - 1)
        BY <2>1, <2>2 DEF bad
    <2> DEFINE h == [j \in 0 .. m |-> IF j < m THEN g[j]
                       ELSE IF Empty(set[m]) THEN g[m - 1] ELSE Append(g[m - 1], set[m])]
    <2>4. \A j \in 0 .. m - 1 : g[j] = IF j = 0 THEN <<>>
              ELSE IF Empty(set[j]) THEN g[j - 1] ELSE Append(g[j - 1], set[j])
        BY <2>3, Zenon DEF Kept
    <2>5. \A j \in 0 .. m : h[j] = IF j = 0 THEN <<>>
              ELSE IF Empty(set[j]) THEN h[j - 1] ELSE Append(h[j - 1], set[j])
        <3> SUFFICES ASSUME NEW j \in 0 .. m
                     PROVE  h[j] = IF j = 0 THEN <<>>
                            ELSE IF Empty(set[j]) THEN h[j - 1] ELSE Append(h[j - 1], set[j])
            OBVIOUS
        <3>1. CASE j = 0
            BY <1>5, <1>7, <2>4, <3>1
        <3>2. CASE j # 0
            <4>1. j - 1 \in 0 .. m /\ j - 1 < m
                BY <1>5, <3>2
            <4>2. h[j - 1] = g[j - 1]
                BY <4>1
            <4>3. CASE j < m
                <5>1. j \in 0 .. m - 1 /\ h[j] = g[j]
                    BY <1>5, <4>3
                <5> HIDE DEF h
                <5> QED
                    BY <2>4, <3>2, <4>2, <5>1
            <4>4. CASE j = m
                <5>1. h[j] = IF Empty(set[m]) THEN g[m - 1] ELSE Append(g[m - 1], set[m])
                    BY <1>5, <4>4
                <5> HIDE DEF h
                <5> QED
                    BY <3>2, <4>2, <4>4, <5>1
            <4> QED
                BY <1>5, <4>3, <4>4
        <3> QED
            BY <3>1, <3>2
    <2>6. DOMAIN h = 0 .. m /\ h = [j \in 0 .. m |-> h[j]]
        OBVIOUS
    <2> HIDE DEF h
    <2>7. Kept(set, h, m)
        BY <2>5, <2>6 DEF Kept
    <2> QED
        BY <1>5, <2>7
<1> QED
    BY <1>6, <1>7

LEMMA KeptIsGood ==
    ASSUME NEW E, NEW may, NEW exact, NEW set, GoodSet(set, E, may, exact), NEW n \in Nat, n <= Len(set), NEW g, Kept(set, g, n)
    PROVE  GoodSet(g[n], E, may, exact)
<1> DEFINE less == {p \in Nat \X Nat : p[1] < p[2]}
           bad == {m \in 0 .. n : ~ GoodSet(g[m], E, may, exact)}
<1>1. IsWellFoundedOn(less, Nat)
    BY NatLessThanWellFounded DEF OpToRel
<1>2. SUFFICES ASSUME bad # {} PROVE FALSE
    OBVIOUS
<1>3. bad \subseteq Nat
    OBVIOUS
<1> HIDE DEF less, bad
<1>4. PICK m \in bad : \A k \in bad : ~(<<k, m>> \in less)
    BY <1>1, <1>2, <1>3, WFMin, Zenon
<1>5. m \in 0 .. n /\ ~ GoodSet(g[m], E, may, exact)
    BY <1>4 DEF bad
<1>6. \A j \in 0 .. n : g[j] = IF j = 0 THEN <<>>
          ELSE IF Empty(set[j]) THEN g[j - 1] ELSE Append(g[j - 1], set[j])
    BY Zenon DEF Kept
<1>7. m # 0
    BY <1>5, <1>6, EmptySetIsGood
<1>8. m - 1 \in 0 .. n /\ <<m - 1, m>> \in less
    BY <1>5, <1>7 DEF less
<1>9. GoodSet(g[m - 1], E, may, exact)
    BY <1>4, <1>8 DEF bad
<1>10. Len(set) \in Nat /\ DOMAIN set = 1 .. Len(set)
    BY IsSeqFacts DEF GoodSet
<1>11. m \in DOMAIN set
    BY <1>5, <1>7, <1>10
<1>12. GoodBundle(set[m], E, may, exact)
    BY <1>11 DEF GoodSet
<1>13. g[m] = IF Empty(set[m]) THEN g[m - 1] ELSE Append(g[m - 1], set[m])
    BY <1>5, <1>6, <1>7
<1>14. GoodSet(Append(g[m - 1], set[m]), E, may, exact)
    BY <1>9, <1>12, AppendToSet, Zenon
<1>15. GoodSet(g[m], E, may, exact)
    BY <1>9, <1>13, <1>14, Zenon
<1> QED
    BY <1>5, <1>15

LEMMA NonEmptyIsGood ==
    ASSUME NEW E, NEW may, NEW exact, NEW set, GoodSet(set, E, may, exact) PROVE GoodSet(NonEmptyBundles(set), E, may, exact)
<1> DEFINE kept == CHOOSE g : Kept(set, g, Len(set))
<1>1. Len(set) \in Nat
    BY IsSeqFacts DEF GoodSet
<1>2. Kept(set, kept, Len(set))
    BY <1>1, KeptExists
<1>3. NonEmptyBundles(set) = kept[Len(set)]
    BY Zenon DEF NonEmptyBundles, Kept
<1> HIDE DEF kept
<1>4. GoodSet(kept[Len(set)], E, may, exact)
    BY <1>1, <1>2, KeptIsGood
<1> QED
    BY <1>3, <1>4

LEMMA BinOfIsNat == ASSUME NEW loc \in Nat PROVE BinOf(loc) \in Nat
<1>1. loc * FeltsPerItem \in Nat
    BY BundleSetAssumption
<1> QED
    BY <1>1, BinBundleAssumption DEF BinOf

LEMMA InsertItemIsGood ==
    ASSUME NEW E, NEW may, NEW exact, NEW set, GoodSet(set, E, may, exact), NEW w \in Entries(E), NEW overwrite
    PROVE  GoodSet(InsertItem(set, w, overwrite).set, E, may, exact)
<1> DEFINE bin == BinOf(w.loc)
           over(j) == overwrite /\ Holds(set[j].bins, w.data, bin)
           insertable(j) == MultiInsertDryRun(set[j], w.data, bin) \in 1 .. MaxBinSize - 1
           stops == {j \in DOMAIN set : set[j].stripped \/ over(j) \/ insertable(j)}
           m == Max(stops)
           fresh == Append(set, MultiInsertForReal(NewBundle, w.data, bin))
           written == [set EXCEPT ![m] = MultiOverwrite(set[m], w.data, bin)]
           inserted == [set EXCEPT ![m] = MultiInsertForReal(set[m], w.data, bin)]
<1>1. InsertItem(set, w, overwrite) =
        IF stops = {}
        THEN IF overwrite THEN Result(set, TRUE) ELSE Result(fresh, FALSE)
        ELSE IF set[m].stripped THEN Result(set, TRUE)
             ELSE IF over(m) THEN Result(written, FALSE)
             ELSE Result(inserted, FALSE)
    BY Zenon DEF InsertItem
<1>0. w.data \in Seq(E) /\ bin \in Nat
    BY BinOfIsNat DEF Entries
<1>2. GoodSet(fresh, E, may, exact)
    BY <1>0, FirstInsertIsGood, AppendToSet, Zenon
<1>3. stops # {} => m \in DOMAIN set /\ (set[m].stripped \/ over(m) \/ insertable(m))
    <2>1. Len(set) \in Nat /\ stops \in SUBSET (0 .. Len(set))
        BY IsSeqFacts DEF GoodSet
    <2> HIDE DEF stops
    <2>2. stops # {} => m \in stops
        BY <2>1, GreatestOf, Zenon
    <2> QED
        BY <2>2 DEF stops
<1>4. ASSUME stops # {}, ~set[m].stripped, over(m) PROVE GoodSet(written, E, may, exact)
    <2>1. GoodBundle(set[m], E, may, exact) /\ m \in DOMAIN set
        BY <1>3, <1>4 DEF GoodSet
    <2>2. Holds(set[m].bins, w.data, bin)
        BY <1>4
    <2> HIDE DEF m, bin
    <2>3. GoodBundle(MultiOverwrite(set[m], w.data, bin), E, may, exact)
        BY <1>0, <1>4, <2>1, <2>2, OverwriteIsGood, Zenon
    <2> QED
        BY <2>1, <2>3, UpdateSet, Zenon
<1>5. ASSUME stops # {}, ~set[m].stripped, ~over(m) PROVE GoodSet(inserted, E, may, exact)
    <2>1. GoodBundle(set[m], E, may, exact) /\ m \in DOMAIN set
        BY <1>3, <1>5 DEF GoodSet
    <2>2. MultiInsertDryRun(set[m], w.data, bin) \in 1 .. MaxBinSize - 1
        BY <1>3, <1>5
    <2> HIDE DEF m, bin
    <2>3. GoodBundle(MultiInsertForReal(set[m], w.data, bin), E, may, exact)
        BY <1>0, <1>5, <2>1, <2>2, InsertForRealIsGood, Zenon
    <2> QED
        BY <2>1, <2>3, UpdateSet, Zenon
<1> HIDE DEF stops, m, over, insertable, fresh, written, inserted
<1> QED
    BY <1>1, <1>2, <1>4, <1>5 DEF Result

LEMMA RemoveItemIsGood ==
    ASSUME NEW E, NEW may, NEW exact, NEW set, GoodSet(set, E, may, exact), NEW w \in Entries(E)
    PROVE  GoodSet(RemoveItem(set, w).set, E, may, exact)
<1> DEFINE bin == BinOf(w.loc)
           stops == {j \in DOMAIN set : set[j].stripped \/ Holds(set[j].bins, w.data, bin)}
           m == Min(stops)
           less == [set EXCEPT ![m] = MultiRemove(set[m], w.data, bin)]
<1>1. RemoveItem(set, w) =
        IF stops = {} THEN Result(NonEmptyBundles(set), TRUE)
        ELSE IF set[m].stripped THEN Result(set, TRUE)
             ELSE Result(NonEmptyBundles(less), FALSE)
    BY Zenon DEF RemoveItem
<1>2. GoodSet(NonEmptyBundles(set), E, may, exact)
    BY NonEmptyIsGood
<1>3. stops # {} => m \in DOMAIN set /\ (set[m].stripped \/ Holds(set[m].bins, w.data, bin))
    <2>1. stops \in SUBSET Nat
        BY IsSeqFacts DEF GoodSet
    <2> HIDE DEF stops
    <2>2. stops # {} => m \in stops
        BY <2>1, LeastOf, Zenon
    <2> QED
        BY <2>2 DEF stops
<1>4. ASSUME stops # {}, ~set[m].stripped PROVE GoodSet(NonEmptyBundles(less), E, may, exact)
    <2>1. GoodBundle(set[m], E, may, exact) /\ m \in DOMAIN set /\ Holds(set[m].bins, w.data, bin)
        BY <1>3, <1>4 DEF GoodSet
    <2> HIDE DEF m, bin
    <2>2. GoodBundle(MultiRemove(set[m], w.data, bin), E, may, exact)
        BY <1>4, <2>1, RemoveIsGood, Zenon
    <2>3. GoodSet(less, E, may, exact)
        BY <2>1, <2>2, UpdateSet, Zenon
    <2> QED
        BY <2>3, NonEmptyIsGood, Zenon
<1> HIDE DEF stops, m, less
<1> QED
    BY <1>1, <1>2, <1>4 DEF Result

LEMMA WorkItemIsGood ==
    ASSUME NEW E, NEW may, NEW exact, NEW set, GoodSet(set, E, may, exact), NEW op, NEW w \in Entries(E)
    PROVE  GoodSet(WorkItem(set, op, w).set, E, may, exact)
BY InsertItemIsGood, RemoveItemIsGood DEF WorkItem

\* An operation on every bundle of a set.
LEMMA MappedSet ==
    ASSUME NEW E, NEW may, NEW exact, NEW set, GoodSet(set, E, may, exact), NEW new, DOMAIN new = DOMAIN set,
           new = [j \in DOMAIN set |-> new[j]], \A j \in DOMAIN set : GoodBundle(new[j], E, may, exact)
    PROVE  GoodSet(new, E, may, exact)
<1>1. Len(set) \in Nat /\ DOMAIN set = 1 .. Len(set)
    BY IsSeqFacts DEF GoodSet
<1> DEFINE S == {new[j] : j \in 1 .. Len(set)}
<1>2. new = [j \in 1 .. Len(set) |-> new[j]] /\ \A j \in 1 .. Len(set) : new[j] \in S
    BY <1>1
<1> HIDE DEF S
<1>3. new \in [1 .. Len(set) -> S]
    BY <1>2
<1>4. new \in Seq(S)
    BY <1>1, <1>3, SeqDef
<1> QED
    BY <1>4, SeqIsSeq DEF GoodSet

LEMMA RegenSet ==
    ASSUME NEW E, NEW may, NEW exact, NEW set, GoodSet(set, E, may, exact), NEW new,
           DOMAIN new = DOMAIN set, \A j \in DOMAIN set : new[j] = RegenCache(set[j]),
           new = [j \in DOMAIN set |-> new[j]]
    PROVE  GoodSet(new, E, may, exact)
<1>1. ASSUME NEW j \in DOMAIN set PROVE GoodBundle(new[j], E, may, exact)
    <2>1. GoodBundle(set[j], E, may, exact) /\ new[j] = RegenCache(set[j])
        BY DEF GoodSet
    <2>2. GoodBundle(RegenCache(set[j]), E, may, exact)
        BY <2>1, RegenIsGood, Zenon
    <2> QED
        BY <2>1, <2>2
<1> QED
    BY <1>1, MappedSet, Zenon

(***************************************************************************)
(* Lists.  The recursive definitions of the model are functions over an    *)
(* interval; what they compute is shown place by place.                    *)
(***************************************************************************)
LEMMA UpTo ==
    ASSUME NEW n \in Nat, NEW S, 0 \in S, \A j \in 1 .. n : j - 1 \in S => j \in S
    PROVE  0 .. n \subseteq S
<1> DEFINE less == {p \in Nat \X Nat : p[1] < p[2]}
           bad == 0 .. n \ S
<1>1. IsWellFoundedOn(less, Nat)
    BY NatLessThanWellFounded DEF OpToRel
<1>2. SUFFICES ASSUME bad # {} PROVE FALSE
    OBVIOUS
<1>3. bad \subseteq Nat
    OBVIOUS
<1> HIDE DEF less, bad
<1>4. PICK m \in bad : \A k \in bad : ~(<<k, m>> \in less)
    BY <1>1, <1>2, <1>3, WFMin, Zenon
<1>5. m \in 0 .. n /\ m \notin S
    BY <1>4 DEF bad
<1>6. m \in 1 .. n
    BY <1>5
<1>7. m - 1 \in 0 .. n /\ <<m - 1, m>> \in less
    BY <1>6 DEF less
<1>8. m - 1 \in S
    BY <1>4, <1>7 DEF bad
<1> QED
    BY <1>5, <1>6, <1>8

\* A recursion whose step is a function on a set has a solution in the set.
SolvesRecursion(g, n, T, base, F) ==
    /\ g \in [0 .. n -> T]
    /\ g[0] = base
    /\ \A j \in 1 .. n : g[j] = F[j][g[j - 1]]

LEMMA RecursionExists ==
    ASSUME NEW n \in Nat, NEW T, NEW base \in T, NEW F \in [1 .. n -> [T -> T]]
    PROVE  \E g : SolvesRecursion(g, n, T, base, F)
<1> DEFINE Solves(g, m) == g[0] = base /\ \A j \in 1 .. m : g[j] = F[j][g[j - 1]]
           S == {m \in 0 .. n : \E g \in [0 .. m -> T] : Solves(g, m)}
<1>1. 0 \in S
    <2> DEFINE g == [j \in 0 .. 0 |-> base]
    <2>1. g \in [0 .. 0 -> T] /\ g[0] = base
        OBVIOUS
    <2>2. Solves(g, 0)
        BY <2>1
    <2> HIDE DEF g, Solves
    <2> QED
        BY <2>1, <2>2
<1>2. ASSUME NEW j \in 1 .. n, j - 1 \in S PROVE j \in S
    <2>1. PICK g \in [0 .. j - 1 -> T] : Solves(g, j - 1)
        BY <1>2
    <2>2. j - 1 \in 0 .. j - 1 /\ g[j - 1] \in T
        BY <1>2
    <2> DEFINE next == F[j][g[j - 1]]
               h == [k \in 0 .. j |-> IF k = j THEN next ELSE g[k]]
    <2>3. next \in T
        BY <2>2
    <2> HIDE DEF next
    <2>4. h \in [0 .. j -> T]
        BY <2>3
    <2>5. /\ \A k \in 0 .. j - 1 : h[k] = g[k]
          /\ h[j] = next
        OBVIOUS
    <2> HIDE DEF h
    <2>6. h[0] = base
        BY <2>1, <2>5
    <2>7. ASSUME NEW k \in 1 .. j PROVE h[k] = F[k][h[k - 1]]
        <3>1. CASE k = j
            BY <2>2, <2>5, <3>1 DEF next
        <3>2. CASE k # j
            <4>1. k \in 1 .. j - 1 /\ k \in 0 .. j - 1 /\ k - 1 \in 0 .. j - 1
                BY <3>2
            <4> QED
                BY <2>1, <2>5, <4>1
        <3> QED
            BY <3>1, <3>2
    <2>8. Solves(h, j)
        BY <2>6, <2>7
    <2> HIDE DEF Solves
    <2> QED
        BY <2>4, <2>8
<1> HIDE DEF Solves
<1>3. 0 .. n \subseteq S
    <2> HIDE DEF S
    <2> QED
        BY <1>1, <1>2, UpTo
<1>4. n \in S
    BY <1>3
<1>5. PICK g \in [0 .. n -> T] : Solves(g, n)
    BY <1>4
<1>6. SolvesRecursion(g, n, T, base, F)
    BY <1>5 DEF Solves, SolvesRecursion
<1> QED
    BY <1>6

\* The bundles are counted index by index.
LEMMA CountsBundles ==
    ASSUME NEW bb, \A idx \in BundleIdx : Len(bb[idx]) \in Nat
    PROVE  \E below : /\ \A n \in 0 .. BundleIdxCount : below[n] \in Nat
                      /\ below[0] = 0
                      /\ \A n \in 1 .. BundleIdxCount : below[n] = below[n - 1] + Len(bb[n - 1])
                      /\ BundlesIn(bb) = below[BundleIdxCount]
<1> DEFINE N == BundleIdxCount
           F == [n \in 1 .. N |-> [a \in Nat |-> a + Len(bb[n - 1])]]
           Is(f) == f = [n \in 0 .. N |-> IF n = 0 THEN 0 ELSE f[n - 1] + Len(bb[n - 1])]
           below == CHOOSE f : Is(f)
<1>1. N \in Nat
    BY BundleSetAssumption
<1>2. \A n \in 1 .. N : Len(bb[n - 1]) \in Nat
    BY <1>1 DEF BundleIdx
<1>3. F \in [1 .. N -> [Nat -> Nat]]
    BY <1>2
<1>4. \A a \in Nat, n \in 1 .. N : F[n][a] = a + Len(bb[n - 1])
    OBVIOUS
<1> HIDE DEF F
<1>5. PICK g : SolvesRecursion(g, N, Nat, 0, F)
    <2>1. 0 \in Nat
        OBVIOUS
    <2> HIDE DEF N
    <2> QED
        BY <1>1, <1>3, <2>1, RecursionExists, Zenon
<1>6. g[0] = 0 /\ \A n \in 1 .. N : g[n - 1] \in Nat /\ g[n] = g[n - 1] + Len(bb[n - 1])
    <2> HIDE DEF N
    <2>1. g[0] = 0 /\ g \in [0 .. N -> Nat] /\ \A n \in 1 .. N : g[n] = F[n][g[n - 1]]
        BY <1>5, Zenon DEF SolvesRecursion
    <2>2. ASSUME NEW n \in 1 .. N
          PROVE  g[n - 1] \in Nat /\ g[n] = g[n - 1] + Len(bb[n - 1])
        <3>1. n - 1 \in 0 .. N
            BY <1>1
        <3>2. g[n - 1] \in Nat
            BY <2>1, <3>1
        <3> QED
            BY <1>4, <2>1, <3>2
    <2> QED
        BY <2>1, <2>2
<1>7. Is(g)
    <2>1. DOMAIN g = 0 .. N /\ g = [n \in 0 .. N |-> g[n]]
        BY <1>5 DEF SolvesRecursion
    <2>2. \A n \in 0 .. N : g[n] = IF n = 0 THEN 0 ELSE g[n - 1] + Len(bb[n - 1])
        BY <1>1, <1>6
    <2> QED
        BY <2>1, <2>2
<1>8. Is(below)
    BY <1>7
<1>9. BundlesIn(bb) = below[N]
    BY DEF BundlesIn
<1> HIDE DEF below
<1>10. /\ below[0] = 0
       /\ \A n \in 1 .. N : below[n] = below[n - 1] + Len(bb[n - 1])
    BY <1>1, <1>8
<1> DEFINE S == {n \in 0 .. N : below[n] \in Nat}
<1>11. 0 \in S
    BY <1>1, <1>10
<1>12. ASSUME NEW n \in 1 .. N, n - 1 \in S PROVE n \in S
    <2>1. n - 1 \in 0 .. N /\ n \in 0 .. N /\ below[n - 1] \in Nat /\ Len(bb[n - 1]) \in Nat
        BY <1>1, <1>2, <1>12
    <2>2. below[n] \in Nat
        BY <1>10, <2>1
    <2> QED
        BY <2>1, <2>2
<1>13. 0 .. N \subseteq S
    <2> HIDE DEF S, N
    <2> QED
        BY <1>1, <1>11, <1>12, UpTo
<1>14. \A n \in 0 .. N : below[n] \in Nat
    BY <1>13
<1> QED
    BY <1>9, <1>10, <1>14, Zenon

LEMMA BundlesInIsNat ==
    ASSUME NEW bb, \A idx \in BundleIdx : Len(bb[idx]) \in Nat
    PROVE  BundlesIn(bb) \in Nat
<1>1. PICK below : /\ \A n \in 0 .. BundleIdxCount : below[n] \in Nat
                   /\ BundlesIn(bb) = below[BundleIdxCount]
    BY CountsBundles, Zenon
<1> QED
    BY <1>1, BundleSetAssumption

LEMMA FlattenSteps ==
    ASSUME NEW T, NEW seqs \in Seq(Seq(T)), Len(seqs) # 0
    PROVE  \E f : /\ FlattenSeq(seqs) = f[Len(seqs)]
                  /\ f[1] = seqs[1]
                  /\ \A i \in 2 .. Len(seqs) : f[i] = f[i - 1] \o seqs[i]
<1> DEFINE N == Len(seqs)
           F == [i \in 1 .. N |-> [s \in Seq(T) |-> s \o seqs[i]]]
           Is(f) == f = [i \in 1 .. N |-> IF i = 1 THEN seqs[i] ELSE f[i - 1] \o seqs[i]]
           flatten == CHOOSE f : Is(f)
<1>0. N \in Nat /\ N # 0 /\ \A i \in 1 .. N : seqs[i] \in Seq(T)
    OBVIOUS
<1>1. F \in [1 .. N -> [Seq(T) -> Seq(T)]]
    BY <1>0
<1>2. \A s \in Seq(T), i \in 1 .. N : F[i][s] = s \o seqs[i]
    OBVIOUS
<1>3. <<>> \in Seq(T)
    OBVIOUS
<1> HIDE DEF F
<1>4. PICK g : SolvesRecursion(g, N, Seq(T), <<>>, F)
    <2> HIDE DEF N
    <2> QED
        BY <1>0, <1>1, <1>3, RecursionExists, Zenon
<1> DEFINE h == [i \in 1 .. N |-> g[i]]
<1>5. ASSUME NEW i \in 1 .. N
      PROVE  h[i] = IF i = 1 THEN seqs[i] ELSE h[i - 1] \o seqs[i]
    <2>0. i - 1 \in 0 .. N /\ g[i - 1] \in Seq(T) /\ g[i] = F[i][g[i - 1]]
        <3> HIDE DEF N
        <3>1. g \in [0 .. N -> Seq(T)] /\ \A j \in 1 .. N : g[j] = F[j][g[j - 1]]
            BY <1>4, Zenon DEF SolvesRecursion
        <3>2. i - 1 \in 0 .. N
            BY <1>0
        <3> QED
            BY <3>1, <3>2
    <2>1. i - 1 \in 0 .. N /\ g[i] = g[i - 1] \o seqs[i]
        BY <1>2, <2>0
    <2>2. CASE i = 1
        <3>1. g[i] = <<>> \o seqs[i]
            BY <1>4, <2>1, <2>2 DEF SolvesRecursion
        <3>2. <<>> \o seqs[i] = seqs[i]
            BY <1>0
        <3> QED
            BY <2>2, <3>1, <3>2
    <2>3. CASE i # 1
        <3>1. i - 1 \in 1 .. N
            BY <1>0, <2>3
        <3> QED
            BY <2>1, <2>3, <3>1
    <2> QED
        BY <2>2, <2>3
<1>6. Is(h)
    BY <1>5
<1>7. Is(flatten)
    BY <1>6
<1>8. FlattenSeq(seqs) = flatten[N]
    BY <1>0 DEF FlattenSeq
<1> HIDE DEF flatten
<1>9. /\ flatten[1] = seqs[1]
      /\ \A i \in 2 .. N : flatten[i] = flatten[i - 1] \o seqs[i]
    <2>1. \A i \in 1 .. N : flatten[i] = IF i = 1 THEN seqs[i] ELSE flatten[i - 1] \o seqs[i]
        BY <1>7, Zenon
    <2> HIDE DEF N
    <2>2. 1 \in 1 .. N /\ 2 .. N \subseteq 1 .. N
        BY <1>0
    <2>3. \A i \in 2 .. N : i # 1
        OBVIOUS
    <2>4. flatten[1] = seqs[1]
        BY <2>1, <2>2
    <2>5. \A i \in 2 .. N : flatten[i] = flatten[i - 1] \o seqs[i]
        BY <2>1, <2>2, <2>3
    <2> QED
        BY <2>4, <2>5
<1> QED
    BY <1>8, <1>9

LEMMA FlattenIn ==
    ASSUME NEW T, NEW seqs \in Seq(Seq(T))
    PROVE  FlattenSeq(seqs) \in Seq(T)
<1> DEFINE N == Len(seqs)
<1>1. N \in Nat /\ \A i \in 1 .. N : seqs[i] \in Seq(T)
    OBVIOUS
<1>2. CASE N = 0
    <2>1. FlattenSeq(seqs) = seqs /\ seqs = <<>>
        BY <1>2 DEF FlattenSeq
    <2> QED
        BY <2>1
<1>3. CASE N # 0
    <2>1. PICK f : /\ FlattenSeq(seqs) = f[N]
                   /\ f[1] = seqs[1]
                   /\ \A i \in 2 .. N : f[i] = f[i - 1] \o seqs[i]
        BY <1>3, FlattenSteps, Zenon
    <2> DEFINE S == {i \in 0 .. N : i # 0 => f[i] \in Seq(T)}
    <2>2. 0 \in S
        BY <1>1
    <2>3. ASSUME NEW i \in 1 .. N, i - 1 \in S PROVE i \in S
        <3>1. CASE i = 1
            BY <1>1, <2>1, <3>1
        <3>2. CASE i # 1
            <4>1. i \in 2 .. N /\ f[i - 1] \in Seq(T)
                BY <1>1, <2>3, <3>2
            <4>2. f[i] = f[i - 1] \o seqs[i] /\ seqs[i] \in Seq(T)
                BY <1>1, <2>1, <4>1
            <4>3. f[i] \in Seq(T)
                <5> DEFINE a == f[i - 1]
                           b == seqs[i]
                <5>1. f[i] = a \o b /\ a \in Seq(T) /\ b \in Seq(T)
                    BY <4>1, <4>2
                <5> HIDE DEF a, b
                <5> QED
                    BY <5>1
            <4> QED
                BY <4>3
        <3> QED
            BY <3>1, <3>2
    <2>4. 0 .. N \subseteq S
        <3> HIDE DEF S, N
        <3> QED
            BY <1>1, <2>2, <2>3, UpTo
    <2>5. N \in 0 .. N /\ N # 0
        BY <1>1, <1>3
    <2> QED
        BY <2>1, <2>4, <2>5
<1> QED
    BY <1>2, <1>3

\* What is left of a list of work.
LEMMA RestOf ==
    ASSUME NEW S, NEW s \in Seq(S), s # <<>>
    PROVE  Head(s) \in S /\ Tail(s) \in Seq(S) /\ (Len(s) # 1 => Tail(s) # <<>>)
<1>1. Head(s) \in S /\ Tail(s) \in Seq(S) /\ Len(Tail(s)) = Len(s) - 1
    BY HeadTailProperties
<1>2. Len(s) \in Nat
    OBVIOUS
<1>3. Len(<<>>) = 0
    OBVIOUS
<1>4. ASSUME Tail(s) = <<>> PROVE Len(s) - 1 = 0
    BY <1>1, <1>3, <1>4, Zenon
<1>5. Len(s) # 1 => Tail(s) # <<>>
    BY <1>2, <1>4
<1> QED
    BY <1>1, <1>5

LEMMA NthIsIn ==
    ASSUME NEW n \in Nat, NEW K \in SUBSET (0 .. n), NEW m \in 1 .. Cardinality(K)
    PROVE  Nth(K, m) \in K /\ Cardinality({j \in K : j <= Nth(K, m)}) = m
<1> DEFINE upTo(k) == {j \in K : j < k}
           S == {k \in 0 .. n + 1 : Cardinality(upTo(k)) < m}
<1>0. \A j \in K : j \in Nat /\ j <= n
    OBVIOUS
<1>1. \A k \in 0 .. n + 1 : IsFiniteSet(upTo(k)) /\ Cardinality(upTo(k)) \in Nat
    <2>1. IsFiniteSet(0 .. n)
        BY FS_Interval
    <2> QED
        BY <2>1, FS_Subset, FS_CardinalityType
<1>2. SUFFICES \E k \in K : Cardinality({j \in K : j <= k}) = m
    BY DEF Nth
<1>3. SUFFICES ASSUME \A k \in K : Cardinality({j \in K : j <= k}) # m PROVE FALSE
    OBVIOUS
<1>4. 0 \in S
    <2>0. \A j \in K : ~(j < 0)
        BY <1>0
    <2>1. upTo(0) = {}
        BY <2>0
    <2>2. Cardinality(upTo(0)) = 0
        BY <2>1, FS_EmptySet
    <2> QED
        BY <2>2
<1>5. ASSUME NEW k \in 1 .. n + 1, k - 1 \in S PROVE k \in S
    <2>1. CASE k - 1 \notin K
        <3>0. \A j \in K : j < k <=> j < k - 1
            BY <1>0, <2>1
        <3>1. upTo(k) = upTo(k - 1)
            BY <3>0
        <3> QED
            BY <1>5, <3>1
    <2>2. CASE k - 1 \in K
        <3>1. upTo(k) = upTo(k - 1) \cup {k - 1} /\ k - 1 \notin upTo(k - 1)
            <4>1. \A j \in K : j < k <=> j < k - 1 \/ j = k - 1
                BY <1>0
            <4>2. ~(k - 1 < k - 1)
                OBVIOUS
            <4> QED
                BY <2>2, <4>1, <4>2
        <3>2. IsFiniteSet(upTo(k - 1)) /\ Cardinality(upTo(k - 1)) \in Nat
            BY <1>1, <1>5
        <3>3. Cardinality(upTo(k)) = Cardinality(upTo(k - 1)) + 1
            <4> HIDE DEF upTo
            <4> QED
                BY <3>1, <3>2, FS_AddElement
        <3>4. upTo(k) = {j \in K : j <= k - 1}
            <4>1. \A j \in K : j < k <=> j <= k - 1
                BY <1>0
            <4> QED
                BY <4>1
        <3>5. Cardinality(upTo(k)) # m
            BY <1>3, <2>2, <3>4
        <3> HIDE DEF upTo
        <3> QED
            BY <1>5, <3>2, <3>3, <3>5
    <2> QED
        BY <2>1, <2>2
<1>6. 0 .. n + 1 \subseteq S
    <2> HIDE DEF S
    <2>1. n + 1 \in Nat
        OBVIOUS
    <2> QED
        BY <1>4, <1>5, <2>1, UpTo
<1>7. upTo(n + 1) = K
    <2>1. \A j \in K : j < n + 1
        BY <1>0
    <2> QED
        BY <2>1
<1>8. Cardinality(K) < m /\ Cardinality(K) \in Nat
    BY <1>1, <1>6, <1>7
<1> QED
    BY <1>8

LEMMA ElementsAtIn ==
    ASSUME NEW T, NEW s \in Seq(T), NEW K \in SUBSET DOMAIN s
    PROVE  ElementsAt(s, K) \in Seq(T)
<1>1. Len(s) \in Nat /\ K \in SUBSET (0 .. Len(s))
    OBVIOUS
<1>2. Cardinality(K) \in Nat
    <2>1. IsFiniteSet(0 .. Len(s))
        BY <1>1, FS_Interval
    <2> QED
        BY <1>1, <2>1, FS_Subset, FS_CardinalityType, Zenon
<1>3. \A m \in 1 .. Cardinality(K) : Nth(K, m) \in K
    BY <1>1, NthIsIn
<1>4. \A m \in 1 .. Cardinality(K) : s[Nth(K, m)] \in T
    BY <1>3
<1>5. ElementsAt(s, K) \in [1 .. Cardinality(K) -> T]
    BY <1>4 DEF ElementsAt
<1> QED
    BY <1>2, <1>5, SeqDef

\* No position is taken twice.
LEMMA NthDiffer ==
    ASSUME NEW n \in Nat, NEW K \in SUBSET (0 .. n), NEW m \in 1 .. Cardinality(K), NEW p \in 1 .. Cardinality(K),
           Nth(K, m) = Nth(K, p)
    PROVE  m = p
<1> DEFINE upTo(k) == Cardinality({j \in K : j <= k})
<1>1. upTo(Nth(K, m)) = m /\ upTo(Nth(K, p)) = p
    BY NthIsIn, Zenon
<1> HIDE DEF upTo
<1> QED
    BY <1>1

LEMMA EntriesOfType ==
    ASSUME NEW E, NEW d, d.item \in Items, Algebraize(d) \in Seq(E)
    PROVE  EntriesOf(d) \in Seq(Entries(E)) /\ DOMAIN EntriesOf(d) = DOMAIN ItemLocs[d.item]
<1> DEFINE locs == ItemLocs[d.item]
<1>1. locs \in Seq(Nat)
    BY BundleSetAssumption
<1> HIDE DEF locs
<1>2. Len(locs) \in Nat /\ DOMAIN locs = 1 .. Len(locs) /\ \A m \in DOMAIN locs : locs[m] \in Nat
    BY <1>1
<1>3. \A m \in 1 .. Len(locs) : [data |-> Algebraize(d), loc |-> locs[m]] \in Entries(E)
    BY <1>2 DEF Entries
<1>4. EntriesOf(d) = [m \in 1 .. Len(locs) |-> [data |-> Algebraize(d), loc |-> locs[m]]]
    BY <1>2 DEF EntriesOf, locs
<1>5. EntriesOf(d) \in [1 .. Len(locs) -> Entries(E)]
    BY <1>3, <1>4
<1>6. EntriesOf(d) \in Seq(Entries(E))
    BY <1>2, <1>5, SeqDef
<1>7. DOMAIN EntriesOf(d) = DOMAIN locs
    BY <1>2, <1>5
<1> QED
    BY <1>6, <1>7 DEF locs

LEMMA TaskOfType ==
    ASSUME NEW E, NEW D, \A d \in D : d.item \in Items /\ Algebraize(d) \in Seq(E),
           NEW data \in Seq(D), NEW idx
    PROVE  TaskOf(data, idx) \in Seq(Entries(E))
<1> DEFINE parts == [j \in DOMAIN data |->
                       ElementsAt(EntriesOf(data[j]), LocsAt(data[j].item, idx))]
<1>1. Len(data) \in Nat /\ DOMAIN data = 1 .. Len(data) /\ \A j \in DOMAIN data : data[j] \in D
    OBVIOUS
<1>2. ASSUME NEW j \in DOMAIN data PROVE parts[j] \in Seq(Entries(E))
    <2>1. EntriesOf(data[j]) \in Seq(Entries(E))
          /\ LocsAt(data[j].item, idx) \in SUBSET DOMAIN EntriesOf(data[j])
        BY <1>1, EntriesOfType DEF LocsAt
    <2> QED
        BY <2>1, ElementsAtIn
<1>3. parts \in [1 .. Len(data) -> Seq(Entries(E))]
    BY <1>1, <1>2
<1>4. TaskOf(data, idx) = FlattenSeq(parts)
    BY DEF TaskOf
<1> HIDE DEF parts
<1>5. parts \in Seq(Seq(Entries(E)))
    BY <1>1, <1>3, TupleIsSeq, Zenon
<1> QED
    BY <1>4, <1>5, FlattenIn, Zenon

(***************************************************************************)
(* Rows.  In a labeled database an inserted item is a row of a bundle: one *)
(* felt in each of FeltsPerItem bins, from a row start on, each beside its *)
(* part of the label.                                                      *)
(***************************************************************************)
Starts == {s \in 0 .. NumBins - FeltsPerItem : \E a \in Nat : s = a * FeltsPerItem}
AllRows == [item : Items, label : Labels, start : Starts]
RowOf(i, l, s) == [item |-> i, label |-> l, start |-> s]

\* What a row puts into the j-th of its bins.
Part(r, j) == [felt |-> ItemFelts[r.item][j], label |-> <<r.item, r.label>>]

\* The rows whose parts are all in the bins.
RowsIn(bins) ==
    {r \in AllRows : \A j \in 1 .. FeltsPerItem : Part(r, j) \in ToSet(bins[r.start + j - 1])}

\* An item has a location at bundle index idx and row start s.
Lies(i, s, idx) == \E loc \in ToSet(ItemLocs[i]) : BundleOf(loc) = idx /\ BinOf(loc) = s

\* Bins that hold nothing but rows, where their items lie.
SoundBins(bins, idx) ==
    /\ \A r \in RowsIn(bins) : Lies(r.item, r.start, idx)
    /\ \A k \in BinIdx : \A e \in ToSet(bins[k]) :
          \E r \in RowsIn(bins) : \E j \in 1 .. FeltsPerItem : r.start + j - 1 = k /\ e = Part(r, j)

\* Two row starts whose bins overlap are the same.
LEMMA SamePlace ==
    ASSUME NEW s \in Starts, NEW t \in Starts, NEW j \in 1 .. FeltsPerItem, NEW k \in 1 .. FeltsPerItem,
           s + j = t + k
    PROVE  s = t /\ j = k
<1> DEFINE F == FeltsPerItem
<1>1. F \in Nat \ {0}
    BY BundleSetAssumption
<1>2. PICK a \in Nat : s = a * F
    BY DEF Starts
<1>3. PICK b \in Nat : t = b * F
    BY DEF Starts
<1>4. ASSUME NEW m \in Nat, NEW n \in Nat, m < n PROVE m * F + F <= n * F
    <2> HIDE DEF F
    <2>1. PICK d \in Nat : n = m + 1 + d
        BY <1>4
    <2>2. n * F = m * F + F + d * F
        BY <1>1, <2>1
    <2>3. d * F \in Nat /\ m * F \in Nat
        BY <1>1
    <2> QED
        BY <1>1, <2>2, <2>3
<1>5. j \in 1 .. F /\ k \in 1 .. F /\ s \in Nat /\ t \in Nat
    BY DEF Starts
<1>6. ~(a < b)
    BY <1>1, <1>2, <1>3, <1>4, <1>5
<1>7. ~(b < a)
    BY <1>1, <1>2, <1>3, <1>4, <1>5
<1>8. a = b
    BY <1>6, <1>7
<1> QED
    BY <1>2, <1>3, <1>5, <1>8

\* The first bin of a location is a row start.
LEMMA PlaceOf ==
    ASSUME NEW loc \in Nat
    PROVE  /\ BinOf(loc) \in Starts /\ BundleOf(loc) \in Nat
           /\ loc * FeltsPerItem = NumBins * BundleOf(loc) + BinOf(loc)
<1> DEFINE F == FeltsPerItem
           n == loc * F
<1>1. F \in Nat \ {0} /\ NumBins \in Nat \ {0}
    BY BundleSetAssumption, BinBundleAssumption
<1>2. n \in Nat
    BY <1>1
<1>3. PICK d \in Nat : n = NumBins * d + (n % NumBins) /\ n % NumBins \in 0 .. NumBins - 1
    <2> HIDE DEF n
    <2>1. n \div NumBins \in Nat /\ n = NumBins * (n \div NumBins) + (n % NumBins)
          /\ n % NumBins \in 0 .. NumBins - 1
        BY <1>1, <1>2
    <2> QED
        BY <2>1
<1>4. PICK q \in Nat : NumBins = q * F
    <2>1. NumBins % F = 0
        BY RowsAssumption
    <2>2. NumBins \div F \in Nat /\ NumBins = F * (NumBins \div F) + (NumBins % F)
        BY <1>1
    <2>3. PICK q \in Nat : NumBins = F * q + (NumBins % F)
        BY <2>2
    <2>4. F * q \in Nat /\ F * q = q * F
        BY <1>1
    <2>5. NumBins = q * F
        BY <2>1, <2>3, <2>4
    <2> QED
        BY <2>5
<1> DEFINE r == BinOf(loc)
<1>5. r = n % NumBins
    BY DEF BinOf
<1>6. r \in 0 .. NumBins - 1 /\ n = NumBins * d + r
    BY <1>3, <1>5
<1> HIDE DEF r
<1>7. \E a \in Nat : r = a * F /\ a < q
    <2>1. NumBins * d = (q * d) * F
        BY <1>1, <1>4
    <2>2. r = (loc - q * d) * F
        <3>1. q * d \in Nat
            BY <1>4, <1>3
        <3>2. r = loc * F - (q * d) * F
            BY <1>1, <1>6, <2>1, <3>1
        <3> QED
            BY <1>1, <3>1, <3>2
    <2> DEFINE a == loc - q * d
    <2>3. a \in Int /\ r = a * F
        BY <2>2, <1>3, <1>4
    <2> HIDE DEF a
    <2>4. a >= 0
        <3> SUFFICES ASSUME a < 0 PROVE FALSE
            BY <2>3
        <3>1. a * F <= -F
            BY <1>1, <2>3
        <3> QED
            BY <1>1, <1>6, <2>3, <3>1
    <2>5. a < q
        <3> SUFFICES ASSUME a >= q PROVE FALSE
            BY <1>4, <2>3
        <3>1. a * F >= q * F
            BY <1>1, <1>4, <2>3
        <3> QED
            BY <1>1, <1>4, <1>6, <2>3, <3>1
    <2> QED
        BY <2>3, <2>4, <2>5
<1>8. r \in Starts
    <2>1. PICK a \in Nat : r = a * F /\ a < q
        BY <1>7
    <2>2. a * F + F <= q * F
        <3>1. PICK c \in Nat : q = a + 1 + c
            BY <1>4, <2>1
        <3>2. q * F = a * F + F + c * F /\ c * F \in Nat /\ a * F \in Nat
            BY <1>1, <3>1
        <3> QED
            BY <1>1, <3>2
    <2> QED
        BY <1>1, <1>4, <2>1, <2>2 DEF Starts
<1>9. BundleOf(loc) = d
    <2>1. BundleOf(loc) = (n - r) \div NumBins
        BY DEF BundleOf, r
    <2> HIDE DEF n
    <2>2. n - r = NumBins * d
        BY <1>1, <1>2, <1>3, <1>6
    <2>3. (NumBins * d) \div NumBins = d
        BY <1>1, <1>3
    <2> QED
        BY <2>1, <2>2, <2>3
<1> QED
    BY <1>3, <1>6, <1>8, <1>9 DEF r

\* A location is known by its bundle index and its first bin.
LEMMA PlaceIsLoc ==
    ASSUME NEW loc \in Nat, NEW other \in Nat, BundleOf(loc) = BundleOf(other), BinOf(loc) = BinOf(other)
    PROVE  loc = other
<1> DEFINE F == FeltsPerItem
<1>1. F \in Nat \ {0}
    BY BundleSetAssumption
<1>2. loc * F = NumBins * BundleOf(loc) + BinOf(loc) /\ other * F = NumBins * BundleOf(other) + BinOf(other)
    BY PlaceOf
<1>3. loc * F = other * F
    BY <1>2
<1> QED
    BY <1>1, <1>3

\* The parts of a row go into bins of the bundle.
LEMMA RowPlaces ==
    ASSUME NEW s \in Starts, NEW j \in 1 .. FeltsPerItem PROVE s \in Nat /\ s + j - 1 \in BinIdx
BY BundleSetAssumption, BinBundleAssumption DEF Starts, BinIdx

\* A part tells of which row it is, in its bin.
LEMMA PartsApart ==
    ASSUME NEW r \in AllRows, NEW q \in AllRows, NEW j \in 1 .. FeltsPerItem, NEW k \in 1 .. FeltsPerItem,
           r.start + j - 1 = q.start + k - 1
    PROVE  /\ j = k /\ r.start = q.start
           /\ Part(r, j) = Part(q, k) => r = q
<1>1. r.start \in Starts /\ q.start \in Starts /\ r.start \in Nat /\ q.start \in Nat
    BY DEF AllRows, Starts
<1>2. r.start + j = q.start + k
    BY <1>1
<1>3. r.start = q.start /\ j = k
    BY <1>1, <1>2, SamePlace
<1>4. ASSUME Part(r, j) = Part(q, k) PROVE r = q
    <2>1. <<r.item, r.label>> = <<q.item, q.label>>
        BY <1>4 DEF Part
    <2>2. r.item = q.item /\ r.label = q.label
        BY <2>1
    <2> QED
        BY <1>3, <2>2 DEF AllRows
<1> QED
    BY <1>3, <1>4

\* The parts of a row are put into the bins.
PartsAdded(bins, more, r) ==
    \A k \in BinIdx : \A e :
        e \in ToSet(more[k]) <=>
            \/ e \in ToSet(bins[k])
            \/ \E j \in 1 .. FeltsPerItem : r.start + j - 1 = k /\ e = Part(r, j)

\* One row more, and one less.
LEMMA RowAdded ==
    ASSUME NEW idx, NEW bins, SoundBins(bins, idx), NEW r \in AllRows, Lies(r.item, r.start, idx), NEW more,
           PartsAdded(bins, more, r)
    PROVE  SoundBins(more, idx) /\ RowsIn(more) = RowsIn(bins) \cup {r}
<1> USE DEF PartsAdded
<1>1. ASSUME NEW q \in AllRows, NEW j \in 1 .. FeltsPerItem
      PROVE  q.start + j - 1 \in BinIdx
    <2>1. q.start \in Starts
        BY DEF AllRows
    <2> QED
        BY <2>1, RowPlaces
<1>2. r \in RowsIn(more)
    BY <1>1 DEF RowsIn
<1>3. RowsIn(bins) \subseteq RowsIn(more)
    BY <1>1 DEF RowsIn
<1>4. ASSUME NEW q \in RowsIn(more), q # r PROVE q \in RowsIn(bins)
    <2>1. q \in AllRows
        BY DEF RowsIn
    <2>2. ASSUME NEW j \in 1 .. FeltsPerItem PROVE Part(q, j) \in ToSet(bins[q.start + j - 1])
        <3>1. Part(q, j) \in ToSet(more[q.start + j - 1]) /\ q.start + j - 1 \in BinIdx
            BY <1>1, <2>1 DEF RowsIn
        <3>2. ASSUME NEW m \in 1 .. FeltsPerItem, q.start + j - 1 = r.start + m - 1, Part(q, j) = Part(r, m)
              PROVE  FALSE
            BY <1>4, <2>1, <3>2, PartsApart
        <3> QED
            BY <3>1, <3>2
    <2> QED
        BY <2>1, <2>2 DEF RowsIn
<1>5. RowsIn(more) = RowsIn(bins) \cup {r}
    BY <1>2, <1>3, <1>4
<1>6. ASSUME NEW k \in BinIdx, NEW e \in ToSet(more[k])
      PROVE  \E q \in RowsIn(more) : \E j \in 1 .. FeltsPerItem : q.start + j - 1 = k /\ e = Part(q, j)
    <2>1. CASE e \in ToSet(bins[k])
        BY <1>3, <2>1 DEF SoundBins
    <2>2. CASE \E j \in 1 .. FeltsPerItem : r.start + j - 1 = k /\ e = Part(r, j)
        BY <1>2, <2>2
    <2> QED
        BY <2>1, <2>2
<1>7. \A q \in RowsIn(more) : Lies(q.item, q.start, idx)
    BY <1>5 DEF SoundBins
<1> QED
    BY <1>5, <1>6, <1>7 DEF SoundBins

\* Bins without the parts of one row hold the other rows, whole.
LEMMA RowTaken ==
    ASSUME NEW idx, NEW bins, SoundBins(bins, idx), NEW r \in AllRows, NEW less,
           \A k \in BinIdx : \A e :
               e \in ToSet(less[k]) <=>
                   /\ e \in ToSet(bins[k])
                   /\ ~ \E j \in 1 .. FeltsPerItem : r.start + j - 1 = k /\ e = Part(r, j)
    PROVE  SoundBins(less, idx) /\ RowsIn(less) = RowsIn(bins) \ {r}
<1>1. ASSUME NEW q \in AllRows, NEW j \in 1 .. FeltsPerItem
      PROVE  q.start + j - 1 \in BinIdx
    <2>1. q.start \in Starts
        BY DEF AllRows
    <2> QED
        BY <2>1, RowPlaces
<1>2. r \notin RowsIn(less)
    <2>1. 1 \in 1 .. FeltsPerItem
        BY BundleSetAssumption
    <2>2. Part(r, 1) \notin ToSet(less[r.start + 1 - 1])
        BY <1>1, <2>1
    <2> QED
        BY <2>1, <2>2 DEF RowsIn
<1>3. RowsIn(less) \subseteq RowsIn(bins)
    BY <1>1 DEF RowsIn
<1>4. ASSUME NEW q \in RowsIn(bins), q # r PROVE q \in RowsIn(less)
    <2>1. q \in AllRows
        BY DEF RowsIn
    <2>2. ASSUME NEW j \in 1 .. FeltsPerItem PROVE Part(q, j) \in ToSet(less[q.start + j - 1])
        <3>1. Part(q, j) \in ToSet(bins[q.start + j - 1]) /\ q.start + j - 1 \in BinIdx
            BY <1>1, <2>1 DEF RowsIn
        <3>2. ASSUME NEW m \in 1 .. FeltsPerItem, q.start + j - 1 = r.start + m - 1, Part(q, j) = Part(r, m)
              PROVE  FALSE
            BY <1>4, <2>1, <3>2, PartsApart
        <3> QED
            BY <3>1, <3>2
    <2> QED
        BY <2>1, <2>2 DEF RowsIn
<1>5. RowsIn(less) = RowsIn(bins) \ {r}
    BY <1>2, <1>3, <1>4
<1>6. ASSUME NEW k \in BinIdx, NEW e \in ToSet(less[k])
      PROVE  \E q \in RowsIn(less) : \E j \in 1 .. FeltsPerItem : q.start + j - 1 = k /\ e = Part(q, j)
    <2>1. e \in ToSet(bins[k])
        OBVIOUS
    <2>2. PICK q \in RowsIn(bins) : \E j \in 1 .. FeltsPerItem : q.start + j - 1 = k /\ e = Part(q, j)
        BY <2>1 DEF SoundBins
    <2>3. q # r
        BY <2>2
    <2> QED
        BY <1>4, <2>2, <2>3
<1>7. \A q \in RowsIn(less) : Lies(q.item, q.start, idx)
    BY <1>5 DEF SoundBins
<1> QED
    BY <1>5, <1>6, <1>7 DEF SoundBins

\* No felt of an item is the one that stands for missing bytes.
LEMMA FeltsAreReal ==
    ASSUME NEW i \in Items, NEW j \in 1 .. FeltsPerItem PROVE ItemFelts[i][j] # Garbled
<1>1. ItemFelts[i] \in [1 .. FeltsPerItem -> ToSet(ItemFelts[i])] /\ Garbled \notin ToSet(ItemFelts[i])
    BY BundleSetAssumption
<1>2. ItemFelts[i][j] \in ToSet(ItemFelts[i])
    BY <1>1
<1> QED
    BY <1>1, <1>2

\* What a bin holds after an insertion or a removal.
LEMMA AppendedCell ==
    ASSUME NEW bin, IsSeq(bin), NEW e PROVE ToSet(Append(bin, e)) = ToSet(bin) \cup {e}
<1> DEFINE more == Append(bin, e)
<1>1. Len(bin) \in Nat /\ DOMAIN bin = 1 .. Len(bin)
    BY IsSeqFacts
<1>2. /\ DOMAIN more = 1 .. Len(bin) + 1 /\ \A i \in 1 .. Len(bin) : more[i] = bin[i]
      /\ more[Len(bin) + 1] = e
    BY AppendToSeq
<1> HIDE DEF more
<1>3. ToSet(more) = ToSet(bin) \cup {e}
    BY <1>1, <1>2 DEF ToSet
<1> QED
    BY <1>3 DEF more

\* In a good labeled bin an entry is known by its felt.
LEMMA OneOfFelt ==
    ASSUME Labeled, NEW E, NEW bin, GoodBin(bin, E), NEW e \in ToSet(bin), NEW f \in ToSet(bin),
           e.felt = f.felt, e.felt # Garbled
    PROVE  e = f
BY Zenon DEF GoodBin, ToSet

\* What FeltPos finds of an entry that is there.
LEMMA FeltFound ==
    ASSUME NEW bin, IsSeq(bin), NEW felt
    PROVE  /\ FeltPos(bin, felt) > 0 <=> \E e \in ToSet(bin) : e.felt = felt
           /\ FeltPos(bin, felt) > 0 => /\ FeltPos(bin, felt) \in DOMAIN bin
                                        /\ bin[FeltPos(bin, felt)] \in ToSet(bin)
                                        /\ bin[FeltPos(bin, felt)].felt = felt
<1> DEFINE n == FeltPos(bin, felt)
<1>1. n \in Nat /\ (n > 0 => n \in DOMAIN bin /\ bin[n].felt = felt)
      /\ (n = 0 => \A i \in DOMAIN bin : bin[i].felt # felt)
    BY FeltPosIs
<1> HIDE DEF n
<1>2. n > 0 => n \in DOMAIN bin /\ bin[n] \in ToSet(bin) /\ bin[n].felt = felt
    BY <1>1 DEF ToSet
<1>3. ~(n > 0) => \A e \in ToSet(bin) : e.felt # felt
    <2>1. ~(n > 0) => n = 0
        BY <1>1
    <2> QED
        BY <1>1, <2>1 DEF ToSet
<1> QED
    BY <1>2, <1>3 DEF n

\* Removing a felt takes one entry out of a bin and leaves the others.
LEMMA RemovedCell ==
    ASSUME Labeled, NEW E, NEW bin, GoodBin(bin, E), NEW e \in ToSet(bin), e.felt # Garbled
    PROVE  ToSet(RemoveAt(bin, FeltPos(bin, e.felt))) = ToSet(bin) \ {e}
<1> DEFINE n == FeltPos(bin, e.felt)
           less == RemoveAt(bin, n)
           S == {bin[j] : j \in DOMAIN bin}
<1>1. bin \in Seq(S) /\ Len(bin) \in Nat /\ DOMAIN bin = 1 .. Len(bin) /\ IsSeq(bin)
    BY IsSeqFacts DEF GoodBin, IsSeq
<1>2. n \in DOMAIN bin /\ bin[n] = e
    <2>1. n > 0
        BY <1>1, FeltFound
    <2>2. n \in DOMAIN bin /\ bin[n] \in ToSet(bin) /\ bin[n].felt = e.felt
        BY <1>1, <2>1, FeltFound, Zenon
    <2> HIDE DEF n
    <2> QED
        BY <2>2, OneOfFelt, Zenon
<1> HIDE DEF S, n
<1> DEFINE front == SubSeq(bin, 1, n - 1)
           back == SubSeq(bin, n + 1, Len(bin))
<1>3. /\ front \in Seq(S) /\ Len(front) = n - 1
      /\ \A j \in 1 .. n - 1 : front[j] = bin[j]
    BY <1>1, <1>2
<1>4. /\ back \in Seq(S) /\ Len(back) = Len(bin) - n
      /\ \A j \in 1 .. Len(bin) - n : back[j] = bin[j + n]
    BY <1>1, <1>2
<1>5. less = front \o back
    BY DEF RemoveAt
<1> HIDE DEF less
<1>6. ToSet(less) = ToSet(front) \cup ToSet(back)
    <2>1. front \in Seq(S) /\ back \in Seq(S)
        BY <1>3, <1>4
    <2> HIDE DEF front, back
    <2>2. Range(front \o back) = Range(front) \cup Range(back)
        BY <2>1, RangeConcatenation, ZenonT(40)
    <2>3. \A q : ToSet(q) = Range(q)
        BY DEF ToSet, Range
    <2> QED
        BY <1>5, <2>2, <2>3
<1>7. ToSet(front) = {bin[j] : j \in 1 .. n - 1}
    <2>1. DOMAIN front = 1 .. n - 1
        BY <1>1, <1>2, <1>3
    <2>2. \A j \in 1 .. n - 1 : front[j] = bin[j]
        BY <1>3
    <2> HIDE DEF front
    <2> QED
        BY <2>1, <2>2 DEF ToSet
<1>8. ToSet(back) = {bin[j] : j \in n + 1 .. Len(bin)}
    <2>1. DOMAIN back = 1 .. Len(bin) - n
        BY <1>4
    <2>2. ASSUME NEW j \in n + 1 .. Len(bin) PROVE j - n \in 1 .. Len(bin) - n /\ back[j - n] = bin[j]
        BY <1>1, <1>2, <1>4
    <2>3. ASSUME NEW j \in 1 .. Len(bin) - n PROVE j + n \in n + 1 .. Len(bin) /\ back[j] = bin[j + n]
        BY <1>1, <1>2, <1>4
    <2> HIDE DEF back
    <2> QED
        BY <2>1, <2>2, <2>3 DEF ToSet
<1>9. \A j \in DOMAIN bin : bin[j] = e => j = n
    BY <1>2 DEF GoodBin
<1> HIDE DEF front, back
<1>10. ToSet(less) = ToSet(bin) \ {e}
    <2>1. ToSet(less) = {bin[j] : j \in 1 .. n - 1} \cup {bin[j] : j \in n + 1 .. Len(bin)}
        BY <1>6, <1>7, <1>8
    <2>2. 1 .. Len(bin) = (1 .. n - 1) \cup {n} \cup (n + 1 .. Len(bin))
          /\ n \notin 1 .. n - 1 /\ n \notin n + 1 .. Len(bin)
        BY <1>1, <1>2
    <2>3. ToSet(bin) = {bin[j] : j \in 1 .. Len(bin)}
        BY <1>1 DEF ToSet
    <2>4. bin[n] = e /\ \A j \in 1 .. Len(bin) : j # n => bin[j] # e
        BY <1>1, <1>2, <1>9
    <2> QED
        BY <2>1, <2>2, <2>3, <2>4
<1> QED
    BY <1>10 DEF less, n

(***************************************************************************)
(* The bundle operations as operations on rows                             *)
(***************************************************************************)
LEMMA DataIs ==
    ASSUME NEW d, NEW s \in Starts
    PROVE  /\ DOMAIN Algebraize(d) = 1 .. FeltsPerItem /\ Len(Algebraize(d)) = FeltsPerItem
           /\ \A j \in 1 .. FeltsPerItem :
                Algebraize(d)[j] = [felt |-> ItemFelts[d.item][j],
                                    label |-> IF Labeled THEN <<d.item, d.label>> ELSE NoLabel]
           /\ Fits(Algebraize(d), s)
           /\ \A k : k \in Covered(Algebraize(d), s) <=> \E j \in 1 .. FeltsPerItem : s + j - 1 = k
           /\ \A j \in 1 .. FeltsPerItem :
                /\ s + j - 1 \in Covered(Algebraize(d), s) /\ (s + j - 1) - s + 1 = j
                /\ FeltAt(Algebraize(d), s, s + j - 1) = ItemFelts[d.item][j]
<1> DEFINE F == FeltsPerItem
           data == Algebraize(d)
<1>1. F \in Nat \ {0} /\ s \in Nat /\ s \in 0 .. NumBins - F /\ NumBins \in Nat
    BY BundleSetAssumption, BinBundleAssumption DEF Starts
<1>2. /\ data = [j \in 1 .. F |-> data[j]]
      /\ \A j \in 1 .. F : data[j] = [felt |-> ItemFelts[d.item][j],
                                      label |-> IF Labeled THEN <<d.item, d.label>> ELSE NoLabel]
    BY DEF Algebraize
<1> HIDE DEF data
<1>3. DOMAIN data = 1 .. F /\ Len(data) = F
    <2>1. data \in [1 .. F -> {data[j] : j \in 1 .. F}]
        BY <1>2
    <2>2. data \in Seq({data[j] : j \in 1 .. F})
        BY <1>1, <2>1, SeqDef
    <2>3. DOMAIN data = 1 .. F
        BY <1>2
    <2> QED
        BY <1>1, <2>2, <2>3
<1>4. Covered(data, s) = s .. s + F - 1
    BY <1>3 DEF Covered
<1>5. \A k : k \in Covered(data, s) <=> \E j \in 1 .. F : s + j - 1 = k
    <2>1. \A k \in s .. s + F - 1 : k - s + 1 \in 1 .. F /\ s + (k - s + 1) - 1 = k
        BY <1>1
    <2>2. \A j \in 1 .. F : s + j - 1 \in s .. s + F - 1
        BY <1>1
    <2> QED
        BY <1>4, <2>1, <2>2
<1>6. Fits(data, s)
    <2>1. data # <<>>
        BY <1>1, <1>3
    <2> QED
        BY <1>1, <1>4, <2>1 DEF Fits, BinIdx
<1>7. ASSUME NEW j \in 1 .. F
      PROVE  /\ s + j - 1 \in Covered(data, s) /\ (s + j - 1) - s + 1 = j
             /\ FeltAt(data, s, s + j - 1) = ItemFelts[d.item][j]
    <2>1. (s + j - 1) - s + 1 = j
        BY <1>1
    <2> QED
        BY <1>2, <1>5, <2>1 DEF FeltAt
<1> QED
    BY <1>2, <1>3, <1>5, <1>6, <1>7 DEF data

\* insert() into a bundle adds one row.
LEMMA InsertRow ==
    ASSUME Labeled, NEW E, NEW may, NEW exact, NEW b, GoodBundle(b, E, may, exact), ~b.stripped,
           NEW idx, SoundBins(b.bins, idx), NEW d \in Datum, d.label \in Labels, NEW s \in Starts,
           Lies(d.item, s, idx)
    PROVE  /\ SoundBins(MultiInsertForReal(b, Algebraize(d), s).bins, idx)
           /\ RowsIn(MultiInsertForReal(b, Algebraize(d), s).bins)
                = RowsIn(b.bins) \cup {RowOf(d.item, d.label, s)}
<1> DEFINE data == Algebraize(d)
           r == RowOf(d.item, d.label, s)
           more == MultiInsertForReal(b, data, s).bins
<1>1. more = [k \in BinIdx |-> IF k \in Covered(data, s) THEN Append(b.bins[k], data[k - s + 1]) ELSE b.bins[k]]
    BY DEF MultiInsertForReal, GoodBundle
<1>2. r \in AllRows /\ r.start = s /\ r.item = d.item /\ r.label = d.label
    BY DEF AllRows, RowOf, Datum
<1>3. \A j \in 1 .. FeltsPerItem : data[j] = Part(r, j)
    <2>1. \A j \in 1 .. FeltsPerItem :
             data[j] = [felt |-> ItemFelts[d.item][j], label |-> <<d.item, d.label>>]
        BY DataIs, Zenon
    <2> QED
        BY <1>2, <2>1 DEF Part
<1>4. /\ \A k : k \in Covered(data, s) <=> \E j \in 1 .. FeltsPerItem : s + j - 1 = k
      /\ \A j \in 1 .. FeltsPerItem : (s + j - 1) - s + 1 = j
    BY DataIs
<1> HIDE DEF data, r, more
<1>5. ASSUME NEW k \in BinIdx, NEW e
      PROVE  e \in ToSet(more[k]) <=>
                 \/ e \in ToSet(b.bins[k])
                 \/ \E j \in 1 .. FeltsPerItem : r.start + j - 1 = k /\ e = Part(r, j)
    <2>0. IsSeq(b.bins[k])
        BY DEF GoodBundle, GoodBin
    <2>1. CASE k \in Covered(data, s)
        <3>1. PICK j \in 1 .. FeltsPerItem : s + j - 1 = k
            BY <1>4, <2>1
        <3>2. more[k] = Append(b.bins[k], Part(r, j))
            BY <1>1, <1>3, <1>4, <2>1, <3>1
        <3>3. ToSet(more[k]) = ToSet(b.bins[k]) \cup {Part(r, j)}
            BY <2>0, <3>2, AppendedCell
        <3>4. \A m \in 1 .. FeltsPerItem : s + m - 1 = k => m = j
            BY <1>4, <3>1
        <3> QED
            BY <1>2, <3>1, <3>3, <3>4
    <2>2. CASE k \notin Covered(data, s)
        BY <1>1, <1>2, <1>4, <2>2
    <2> QED
        BY <2>1, <2>2
<1>6. SoundBins(more, idx) /\ RowsIn(more) = RowsIn(b.bins) \cup {r}
    <2>1. Lies(r.item, r.start, idx) /\ SoundBins(b.bins, idx) /\ r \in AllRows
        BY <1>2
    <2>2. PartsAdded(b.bins, more, r)
        BY <1>5 DEF PartsAdded
    <2> QED
        BY <2>1, <2>2, RowAdded
<1> QED
    BY <1>6 DEF more, data, r

\* The locations of items are numbers.
LEMMA LocOfItem == ASSUME NEW i \in Items, NEW loc \in ToSet(ItemLocs[i]) PROVE loc \in Nat
<1>1. ItemLocs[i] \in Seq(Nat)
    BY BundleSetAssumption
<1> QED
    BY <1>1 DEF ToSet

\* A row of every item is found, and no felts are found that are not a row.
LEMMA HoldsRow ==
    ASSUME ItemsApart, NEW idx, NEW bins, \A k \in BinIdx : IsSeq(bins[k]), SoundBins(bins, idx),
           NEW d \in Datum, NEW s \in Starts, Lies(d.item, s, idx)
    PROVE  Holds(bins, Algebraize(d), s) <=> \E l \in Labels : RowOf(d.item, l, s) \in RowsIn(bins)
<1> DEFINE data == Algebraize(d)
           found(j) == \E e \in ToSet(bins[s + j - 1]) : e.felt = ItemFelts[d.item][j]
<1>1. Holds(bins, data, s) <=> \A j \in 1 .. FeltsPerItem : found(j)
    <2>1. \A j \in 1 .. FeltsPerItem :
             FeltPos(bins[s + j - 1], FeltAt(data, s, s + j - 1)) > 0 <=> found(j)
        <3> SUFFICES ASSUME NEW j \in 1 .. FeltsPerItem
                     PROVE  FeltPos(bins[s + j - 1], FeltAt(data, s, s + j - 1)) > 0 <=> found(j)
            OBVIOUS
        <3>1. IsSeq(bins[s + j - 1]) /\ FeltAt(data, s, s + j - 1) = ItemFelts[d.item][j]
            BY RowPlaces, DataIs
        <3> QED
            BY <3>1, FeltFound
    <2>2. Fits(data, s)
          /\ \A k : k \in Covered(data, s) <=> \E j \in 1 .. FeltsPerItem : s + j - 1 = k
        BY DataIs
    <2> HIDE DEF data, found
    <2>3. Holds(bins, data, s) <=>
              \A j \in 1 .. FeltsPerItem : FeltPos(bins[s + j - 1], FeltAt(data, s, s + j - 1)) > 0
        BY <2>2, Zenon DEF Holds
    <2> QED
        BY <2>1, <2>3, Zenon
<1>2. ASSUME NEW l \in Labels, RowOf(d.item, l, s) \in RowsIn(bins) PROVE Holds(bins, data, s)
    <2> DEFINE r == RowOf(d.item, l, s)
    <2>1. r.start = s /\ r.item = d.item
        BY DEF RowOf
    <2>2. r \in RowsIn(bins)
        BY <1>2
    <2> HIDE DEF r
    <2>3. ASSUME NEW j \in 1 .. FeltsPerItem PROVE found(j)
        <3>1. Part(r, j) \in ToSet(bins[s + j - 1])
            BY <2>1, <2>2 DEF RowsIn
        <3>2. Part(r, j).felt = ItemFelts[d.item][j]
            BY <2>1 DEF Part
        <3> QED
            BY <3>1, <3>2
    <2> HIDE DEF found
    <2> QED
        BY <1>1, <2>3
<1>3. ASSUME Holds(bins, data, s) PROVE \E l \in Labels : RowOf(d.item, l, s) \in RowsIn(bins)
    <2>0. PICK loc \in ToSet(ItemLocs[d.item]) : BundleOf(loc) = idx /\ BinOf(loc) = s
        BY DEF Lies
    <2>1. PICK j \in 1 .. FeltsPerItem :
              \A o \in Items \ {d.item} : loc \in ToSet(ItemLocs[o]) => ItemFelts[o][j] # ItemFelts[d.item][j]
        BY DEF ItemsApart, Datum
    <2>2. PICK e \in ToSet(bins[s + j - 1]) : e.felt = ItemFelts[d.item][j]
        BY <1>1, <1>3
    <2>3. s + j - 1 \in BinIdx /\ s \in Nat
        BY RowPlaces
    <2>4. PICK r \in RowsIn(bins), m \in 1 .. FeltsPerItem : r.start + m - 1 = s + j - 1 /\ e = Part(r, m)
        BY <2>3 DEF SoundBins
    <2>5. r \in AllRows /\ r.start \in Starts /\ r.start \in Nat
        BY DEF RowsIn, AllRows, Starts
    <2>6. r.start = s /\ m = j
        <3>1. r.start + m = s + j
            BY <2>3, <2>4, <2>5
        <3> QED
            BY <2>5, <3>1, SamePlace
    <2>7. r.item = d.item
        <3>1. ItemFelts[r.item][j] = ItemFelts[d.item][j]
            BY <2>2, <2>4, <2>6 DEF Part
        <3>2. d.item \in Items /\ r.item \in Items
            BY <2>5 DEF AllRows, Datum
        <3>3. PICK there \in ToSet(ItemLocs[r.item]) : BundleOf(there) = idx /\ BinOf(there) = s
            BY <2>4, <2>6 DEF SoundBins, Lies
        <3>4. there = loc
            BY <2>0, <3>2, <3>3, LocOfItem, PlaceIsLoc
        <3> QED
            BY <2>1, <3>1, <3>2, <3>3, <3>4
    <2>8. r = RowOf(d.item, r.label, s) /\ r.label \in Labels
        BY <2>5, <2>6, <2>7 DEF AllRows, RowOf
    <2> QED
        BY <2>8
<1> QED
    BY <1>2, <1>3

\* The part of a row is the only entry of its bin with that felt.
LEMMA PartOfRow ==
    ASSUME Labeled, NEW E, NEW bins, \A k \in BinIdx : GoodBin(bins[k], E),
           NEW r \in RowsIn(bins), NEW j \in 1 .. FeltsPerItem
    PROVE  LET bin == bins[r.start + j - 1]
           IN  /\ GoodBin(bin, E) /\ Part(r, j) \in ToSet(bin)
               /\ Part(r, j).felt = ItemFelts[r.item][j] /\ Part(r, j).felt # Garbled
               /\ bin[FeltPos(bin, ItemFelts[r.item][j])] = Part(r, j)
<1> DEFINE bin == bins[r.start + j - 1]
<1>1. r \in AllRows /\ r.item \in Items /\ r.start \in Starts
    BY DEF RowsIn, AllRows
<1>2. GoodBin(bin, E)
    BY <1>1, RowPlaces
<1>3. Part(r, j) \in ToSet(bin)
    BY DEF RowsIn
<1>4. Part(r, j).felt = ItemFelts[r.item][j] /\ Part(r, j).felt # Garbled
    BY <1>1, FeltsAreReal DEF Part
<1> DEFINE p == Part(r, j)
           n == FeltPos(bin, p.felt)
<1> HIDE DEF bin, p
<1>5. p \in ToSet(bin) /\ p.felt # Garbled /\ p.felt = ItemFelts[r.item][j]
    BY <1>3, <1>4 DEF p
<1>6. IsSeq(bin)
    BY <1>2 DEF GoodBin
<1>7. n > 0
    BY <1>5, <1>6, FeltFound
<1>8. bin[n] \in ToSet(bin) /\ bin[n].felt = p.felt
    BY <1>6, <1>7, FeltFound, Zenon
<1>9. bin[n] = p
    <2> HIDE DEF n
    <2> QED
        BY <1>2, <1>5, <1>8, OneOfFelt, Zenon
<1>10. bin[FeltPos(bin, ItemFelts[r.item][j])] = Part(r, j)
    BY <1>5, <1>9 DEF p
<1> QED
    BY <1>2, <1>3, <1>4, <1>10 DEF bin

\* A bundle holds an item at a row start with one label.
LEMMA OneLabel ==
    ASSUME Labeled, NEW E, NEW bins, \A k \in BinIdx : GoodBin(bins[k], E),
           NEW i, NEW s, NEW l, NEW m, RowOf(i, l, s) \in RowsIn(bins), RowOf(i, m, s) \in RowsIn(bins)
    PROVE  l = m
<1> DEFINE r == RowOf(i, l, s)
           q == RowOf(i, m, s)
<1>1. r.start = s /\ r.item = i /\ r.label = l /\ q.start = s /\ q.item = i /\ q.label = m
    BY DEF RowOf
<1>2. 1 \in 1 .. FeltsPerItem
    BY BundleSetAssumption
<1>3. r \in RowsIn(bins) /\ q \in RowsIn(bins)
    OBVIOUS
<1> HIDE DEF r, q
<1> DEFINE bin == bins[s + 1 - 1]
           n == FeltPos(bin, ItemFelts[i][1])
<1>4. bin[n] = Part(r, 1) /\ bin[n] = Part(q, 1)
    BY <1>1, <1>2, <1>3, PartOfRow
<1>5. <<r.item, r.label>> = <<q.item, q.label>>
    BY <1>4 DEF Part
<1> QED
    BY <1>1, <1>5

\* remove() from a bundle takes one row away.
LEMMA RemoveRow ==
    ASSUME Labeled, NEW E, NEW may, NEW exact, NEW b, GoodBundle(b, E, may, exact), ~b.stripped,
           NEW idx, SoundBins(b.bins, idx), NEW d \in Datum, NEW s \in Starts, NEW l,
           RowOf(d.item, l, s) \in RowsIn(b.bins)
    PROVE  /\ SoundBins(MultiRemove(b, Algebraize(d), s).bins, idx)
           /\ RowsIn(MultiRemove(b, Algebraize(d), s).bins) = RowsIn(b.bins) \ {RowOf(d.item, l, s)}
<1> DEFINE data == Algebraize(d)
           r == RowOf(d.item, l, s)
           less == MultiRemove(b, data, s).bins
<1>1. less = [k \in BinIdx |-> IF k \in Covered(data, s)
                               THEN RemoveAt(b.bins[k], FeltPos(b.bins[k], FeltAt(data, s, k))) ELSE b.bins[k]]
    BY DEF MultiRemove, GoodBundle
<1>2. r \in RowsIn(b.bins) /\ r.start = s /\ r.item = d.item
    BY DEF RowOf
<1>3. r \in AllRows
    BY <1>2 DEF RowsIn
<1>4. /\ \A k : k \in Covered(data, s) <=> \E j \in 1 .. FeltsPerItem : s + j - 1 = k
      /\ \A j \in 1 .. FeltsPerItem : (s + j - 1) - s + 1 = j
      /\ \A j \in 1 .. FeltsPerItem : FeltAt(data, s, s + j - 1) = ItemFelts[d.item][j]
    BY DataIs
<1>5. \A k \in BinIdx : GoodBin(b.bins[k], E)
    BY DEF GoodBundle
<1> HIDE DEF data, r, less
<1>6. ASSUME NEW k \in BinIdx, NEW e
      PROVE  e \in ToSet(less[k]) <=>
                 /\ e \in ToSet(b.bins[k])
                 /\ ~ \E j \in 1 .. FeltsPerItem : r.start + j - 1 = k /\ e = Part(r, j)
    <2>1. CASE k \in Covered(data, s)
        <3>1. PICK j \in 1 .. FeltsPerItem : s + j - 1 = k
            BY <1>4, <2>1
        <3> DEFINE p == Part(r, j)
                   bin == b.bins[k]
        <3>2. GoodBin(bin, E) /\ p \in ToSet(bin) /\ p.felt = ItemFelts[d.item][j] /\ p.felt # Garbled
            <4>1. r \in RowsIn(b.bins) /\ b.bins[r.start + j - 1] = bin /\ r.item = d.item
                BY <1>2, <3>1
            <4>2. /\ GoodBin(b.bins[r.start + j - 1], E) /\ Part(r, j) \in ToSet(b.bins[r.start + j - 1])
                  /\ Part(r, j).felt = ItemFelts[r.item][j] /\ Part(r, j).felt # Garbled
                <5>1. r \in RowsIn(b.bins)
                    BY <4>1
                <5> QED
                    BY <5>1, PartOfRow DEF GoodBundle
            <4> QED
                BY <4>1, <4>2
        <3>3. less[k] = RemoveAt(bin, FeltPos(bin, p.felt))
            BY <1>1, <1>4, <2>1, <3>1, <3>2
        <3>4. ToSet(less[k]) = ToSet(bin) \ {p}
            <4> HIDE DEF p, bin
            <4> QED
                BY <3>2, <3>3, RemovedCell
        <3>5. \A m \in 1 .. FeltsPerItem : s + m - 1 = k => m = j
            BY <1>4, <3>1
        <3> QED
            BY <1>2, <3>1, <3>4, <3>5
    <2>2. CASE k \notin Covered(data, s)
        BY <1>1, <1>2, <1>4, <2>2
    <2> QED
        BY <2>1, <2>2
<1>7. SoundBins(less, idx) /\ RowsIn(less) = RowsIn(b.bins) \ {r}
    BY <1>3, <1>6, RowTaken
<1> QED
    BY <1>7 DEF less, data, r

\* The label parts read at the bins of a row are its own.
LEMMA LabelOfRow ==
    ASSUME Labeled, NEW E, NEW bins, \A k \in BinIdx : GoodBin(bins[k], E),
           NEW i, NEW s \in Starts, NEW l, RowOf(i, l, s) \in RowsIn(bins)
    PROVE  ToSet(MultiGetLabel(bins, Probe(i), s)) = {<<i, l>>}
<1> DEFINE r == RowOf(i, l, s)
           data == Probe(i)
           parts == MultiGetLabel(bins, data, s)
<1>1. r.start = s /\ r.item = i /\ r.label = l /\ r \in RowsIn(bins)
    BY DEF RowOf
<1> HIDE DEF r
<1>2. DOMAIN data = 1 .. FeltsPerItem /\ \A j \in 1 .. FeltsPerItem : data[j].felt = ItemFelts[i][j]
    <2> DEFINE d == [item |-> i, label |-> NoLabel]
               tag == IF Labeled THEN <<d.item, d.label>> ELSE NoLabel
    <2>1. data = Algebraize(d) /\ d.item = i
        BY DEF Probe
    <2> HIDE DEF d, data
    <2>2. DOMAIN data = 1 .. FeltsPerItem
          /\ \A j \in 1 .. FeltsPerItem : data[j] = [felt |-> ItemFelts[d.item][j], label |-> tag]
        BY <2>1, DataIs, Zenon
    <2> HIDE DEF tag
    <2> QED
        BY <2>1, <2>2
<1> HIDE DEF data
<1>3. ASSUME NEW j \in 1 .. FeltsPerItem PROVE parts[j] = <<i, l>>
    <2>1. parts[j] = bins[s + j - 1][FeltPos(bins[s + j - 1], ItemFelts[i][j])].label
        BY <1>2 DEF MultiGetLabel
    <2>2. bins[s + j - 1][FeltPos(bins[s + j - 1], ItemFelts[i][j])] = Part(r, j)
        BY <1>1, PartOfRow
    <2> QED
        BY <1>1, <2>1, <2>2 DEF Part
<1>4. DOMAIN parts = 1 .. FeltsPerItem /\ 1 \in 1 .. FeltsPerItem
    BY <1>2, BundleSetAssumption DEF MultiGetLabel
<1> HIDE DEF parts
<1>5. ToSet(parts) = {<<i, l>>}
    BY <1>3, <1>4 DEF ToSet
<1> QED
    BY <1>5 DEF parts, data

(***************************************************************************)
(* What is told of an item.  V holds bins by position: those of the        *)
(* bundles of a set, or of the parts of a file.  An item of which nothing  *)
(* is told (c is Absent) is in none of them; any other is in one of them,  *)
(* with label c.                                                           *)
(***************************************************************************)
RowAt(V, j, i, l, s) == RowOf(i, l, s) \in RowsIn(V[j])

\* Exactly one bundle tells of item i at row start s, with label c; or, if c
\* is Absent, none does.
Told(V, i, s, c) ==
    IF c = Absent THEN \A j \in DOMAIN V, l \in Labels : ~RowAt(V, j, i, l, s)
    ELSE /\ c \in Labels
         /\ \E j \in DOMAIN V : /\ RowAt(V, j, i, c, s)
                                /\ \A k \in DOMAIN V, l \in Labels : RowAt(V, k, i, l, s) => k = j /\ l = c

\* A row is its item, its label and its start.
LEMMA RowsDiffer ==
    ASSUME NEW i, NEW l, NEW s, NEW o, NEW m, NEW t, RowOf(i, l, s) = RowOf(o, m, t)
    PROVE  i = o /\ l = m /\ s = t
BY DEF RowOf

\* The same rows at other positions.
LEMMA ToldThere ==
    ASSUME NEW V, NEW W, NEW h \in [DOMAIN W -> DOMAIN V],
           \A k, m \in DOMAIN W : h[k] = h[m] => k = m,
           \A k \in DOMAIN W : RowsIn(W[k]) = RowsIn(V[h[k]]),
           \A j \in DOMAIN V : RowsIn(V[j]) # {} => \E k \in DOMAIN W : h[k] = j,
           NEW i, NEW s, NEW c, Told(V, i, s, c)
    PROVE  Told(W, i, s, c)
<1>1. \A k \in DOMAIN W : \A l : RowAt(W, k, i, l, s) <=> RowAt(V, h[k], i, l, s)
    BY DEF RowAt
<1>2. \A k \in DOMAIN W : h[k] \in DOMAIN V
    OBVIOUS
<1>3. CASE c = Absent
    BY <1>1, <1>2, <1>3 DEF Told
<1>4. CASE c # Absent
    <2>1. PICK j \in DOMAIN V :
            /\ RowAt(V, j, i, c, s)
            /\ \A k \in DOMAIN V, l \in Labels : RowAt(V, k, i, l, s) => k = j /\ l = c
        BY <1>4 DEF Told
    <2>2. RowsIn(V[j]) # {}
        BY <2>1 DEF RowAt
    <2>3. PICK k \in DOMAIN W : h[k] = j
        BY <2>2
    <2>4. RowAt(W, k, i, c, s)
        BY <1>1, <2>1, <2>3
    <2>5. \A n \in DOMAIN W, l \in Labels : RowAt(W, n, i, l, s) => n = k /\ l = c
        BY <1>1, <1>2, <2>1, <2>3
    <2>6. c \in Labels
        BY <1>4 DEF Told
    <2> QED
        BY <1>4, <2>4, <2>5, <2>6 DEF Told
<1> QED
    BY <1>3, <1>4

\* One row more, in a bundle of the set or in a new one; one row less.
OneRowMore(V, W, m, r) ==
    /\ DOMAIN W = DOMAIN V \cup {m}
    /\ \A j \in DOMAIN W : \A o, k, t :
           RowAt(W, j, o, k, t) <=> \/ j \in DOMAIN V /\ RowAt(V, j, o, k, t)
                                    \/ j = m /\ RowOf(o, k, t) = r

OneRowLess(V, W, m, r) ==
    /\ DOMAIN W = DOMAIN V
    /\ \A j \in DOMAIN V : \A o, k, t :
           RowAt(W, j, o, k, t) <=> RowAt(V, j, o, k, t) /\ ~(j = m /\ RowOf(o, k, t) = r)

\* A row that is inserted is told; what is told of others stays.
LEMMA ToldInserted ==
    ASSUME Absent \notin Labels, NEW V, NEW W, NEW m, NEW i, NEW l \in Labels, NEW s,
           OneRowMore(V, W, m, RowOf(i, l, s))
    PROVE  /\ \A o, t, c : Told(V, o, t, c) /\ (o # i \/ t # s) => Told(W, o, t, c)
           /\ Told(V, i, s, Absent) => Told(W, i, s, l)
<1>1. ASSUME NEW o, NEW t, NEW c, Told(V, o, t, c), o # i \/ t # s PROVE Told(W, o, t, c)
    <2>1. \A j \in DOMAIN W : \A k : RowAt(W, j, o, k, t) <=> j \in DOMAIN V /\ RowAt(V, j, o, k, t)
        BY <1>1, RowsDiffer DEF OneRowMore
    <2>2. CASE c = Absent
        BY <1>1, <2>1, <2>2 DEF Told, OneRowMore
    <2>3. CASE c # Absent
        <3>1. PICK j \in DOMAIN V :
                /\ RowAt(V, j, o, c, t)
                /\ \A k \in DOMAIN V, n \in Labels : RowAt(V, k, o, n, t) => k = j /\ n = c
            BY <1>1, <2>3 DEF Told
        <3>2. j \in DOMAIN W /\ RowAt(W, j, o, c, t) /\ c \in Labels
            BY <1>1, <2>1, <2>3, <3>1 DEF Told, OneRowMore
        <3>3. \A k \in DOMAIN W, n \in Labels : RowAt(W, k, o, n, t) => k = j /\ n = c
            BY <2>1, <3>1
        <3> QED
            BY <2>3, <3>2, <3>3 DEF Told
    <2> QED
        BY <2>2, <2>3
<1>2. ASSUME Told(V, i, s, Absent) PROVE Told(W, i, s, l)
    <2>1. \A j \in DOMAIN V, k \in Labels : ~RowAt(V, j, i, k, s)
        BY <1>2 DEF Told
    <2>2. m \in DOMAIN W /\ RowAt(W, m, i, l, s)
        BY DEF OneRowMore
    <2>3. \A j \in DOMAIN W, k \in Labels : RowAt(W, j, i, k, s) => j = m /\ k = l
        BY <2>1, RowsDiffer DEF OneRowMore
    <2>4. l # Absent
        OBVIOUS
    <2> QED
        BY <2>2, <2>3, <2>4 DEF Told
<1> QED
    BY <1>1, <1>2

\* A row that is removed is no longer told; what is told of others stays.
LEMMA ToldRemoved ==
    ASSUME NEW V, NEW W, NEW m \in DOMAIN V,
           NEW i, NEW l \in Labels, NEW s, RowAt(V, m, i, l, s),
           OneRowLess(V, W, m, RowOf(i, l, s))
    PROVE  /\ \A o, t, c : Told(V, o, t, c) /\ (o # i \/ t # s) => Told(W, o, t, c)
           /\ \A c : Told(V, i, s, c) => c # Absent /\ Told(W, i, s, Absent)
<1>1. ASSUME NEW o, NEW t, NEW c, Told(V, o, t, c), o # i \/ t # s PROVE Told(W, o, t, c)
    <2>1. \A j \in DOMAIN V : \A k : RowAt(W, j, o, k, t) <=> RowAt(V, j, o, k, t)
        BY <1>1, RowsDiffer DEF OneRowLess
    <2>2. CASE c = Absent
        BY <1>1, <2>1, <2>2 DEF Told, OneRowLess
    <2>3. CASE c # Absent
        <3>1. PICK j \in DOMAIN V :
                /\ RowAt(V, j, o, c, t)
                /\ \A k \in DOMAIN V, n \in Labels : RowAt(V, k, o, n, t) => k = j /\ n = c
            BY <1>1, <2>3 DEF Told
        <3>2. j \in DOMAIN W /\ RowAt(W, j, o, c, t) /\ c \in Labels
            BY <1>1, <2>1, <2>3, <3>1 DEF Told, OneRowLess
        <3>3. \A k \in DOMAIN W, n \in Labels : RowAt(W, k, o, n, t) => k = j /\ n = c
            BY <2>1, <3>1 DEF OneRowLess
        <3> QED
            BY <2>3, <3>2, <3>3 DEF Told
    <2> QED
        BY <2>2, <2>3
<1>2. ASSUME NEW c, Told(V, i, s, c) PROVE c # Absent /\ Told(W, i, s, Absent)
    <2>1. c # Absent
        BY <1>2 DEF Told
    <2>2. PICK j \in DOMAIN V :
            \A k \in DOMAIN V, n \in Labels : RowAt(V, k, i, n, s) => k = j /\ n = c
        BY <1>2, <2>1 DEF Told
    <2>3. j = m /\ c = l
        BY <2>2
    <2>4. \A k \in DOMAIN W, n \in Labels : ~RowAt(W, k, i, n, s)
        BY <2>2, <2>3 DEF OneRowLess
    <2> QED
        BY <2>1, <2>4 DEF Told
<1> QED
    BY <1>1, <1>2

(***************************************************************************)
(* One item of a task, on bundles that hold nothing but rows               *)
(***************************************************************************)
BinsOf(set) == [j \in DOMAIN set |-> set[j].bins]
RowSet(set, idx) == \A j \in DOMAIN set : ~set[j].stripped /\ SoundBins(set[j].bins, idx)

WorkFor(d, loc) == [data |-> Algebraize(d), loc |-> loc]

\* An empty bundle has no rows.
LEMMA NoRows ==
    ASSUME NEW idx, NEW bins, \A k \in BinIdx : bins[k] = <<>>
    PROVE  SoundBins(bins, idx) /\ RowsIn(bins) = {}
<1>2. ToSet(<<>>) = {}
    BY DEF ToSet
<1>4. ASSUME NEW r \in RowsIn(bins) PROVE FALSE
    <2>1. r \in AllRows /\ 1 \in 1 .. FeltsPerItem
        BY BundleSetAssumption DEF RowsIn
    <2>2. r.start \in Starts
        BY <2>1 DEF AllRows
    <2>3. r.start + 1 - 1 \in BinIdx
        BY <2>1, <2>2, RowPlaces
    <2>4. Part(r, 1) \in ToSet(bins[r.start + 1 - 1])
        BY <2>1 DEF RowsIn
    <2> QED
        BY <1>2, <2>3, <2>4
<1>5. SoundBins(bins, idx)
    BY <1>2, <1>4 DEF SoundBins
<1> QED
    BY <1>4, <1>5

\* insert_or_assign_worker at one location, as an operation on rows.
LEMMA InsertItemRows ==
    ASSUME Labeled, Absent \notin Labels, NEW E, NEW may, NEW exact, NEW set, GoodSet(set, E, may, exact),
           NEW idx, RowSet(set, idx), NEW d \in Datum, d.label \in Labels,
           NEW loc \in Nat, Lies(d.item, BinOf(loc), idx)
    PROVE  LET out == InsertItem(set, WorkFor(d, loc), FALSE)
           IN  /\ ~out.threw /\ RowSet(out.set, idx)
               /\ \A o, t, c : Told(BinsOf(set), o, t, c) /\ (o # d.item \/ t # BinOf(loc))
                                  => Told(BinsOf(out.set), o, t, c)
               /\ Told(BinsOf(set), d.item, BinOf(loc), Absent)
                    => Told(BinsOf(out.set), d.item, BinOf(loc), d.label)
<1> DEFINE data == Algebraize(d)
           s == BinOf(loc)
           V == BinsOf(set)
           out == InsertItem(set, WorkFor(d, loc), FALSE)
           W == BinsOf(out.set)
           insertable(j) == MultiInsertDryRun(set[j], data, s) \in 1 .. MaxBinSize - 1
           stops == {j \in DOMAIN set : set[j].stripped \/ insertable(j)}
           top == Max(stops)
           more == MultiInsertForReal(set[top], data, s)
           fresh == MultiInsertForReal(NewBundle, data, s)
<1>1. s \in Starts /\ Lies(d.item, s, idx)
    BY PlaceOf
<1>2. WorkFor(d, loc).data = data /\ WorkFor(d, loc).loc = loc
    BY DEF WorkFor
<1>3. out = IF stops = {} THEN Result(Append(set, fresh), FALSE)
            ELSE IF set[top].stripped THEN Result(set, TRUE) ELSE Result([set EXCEPT ![top] = more], FALSE)
    BY <1>2, Zenon DEF InsertItem
<1>4. IsSeq(set) /\ Len(set) \in Nat /\ DOMAIN set = 1 .. Len(set)
    BY IsSeqFacts DEF GoodSet
<1>5. \A j \in DOMAIN set : GoodBundle(set[j], E, may, exact) /\ ~set[j].stripped /\ SoundBins(set[j].bins, idx)
    BY DEF GoodSet, RowSet
<1>6. stops # {} => top \in DOMAIN set
    <2>1. stops \in SUBSET (0 .. Len(set))
        BY <1>4
    <2> HIDE DEF stops
    <2>2. stops # {} => top \in stops
        BY <1>4, <2>1, GreatestOf, Zenon
    <2> QED
        BY <2>2 DEF stops
<1>7. stops # {} => SoundBins(more.bins, idx) /\ ~more.stripped
                    /\ RowsIn(more.bins) = RowsIn(set[top].bins) \cup {RowOf(d.item, d.label, s)}
    <2> SUFFICES ASSUME stops # {}
                 PROVE  SoundBins(more.bins, idx) /\ ~more.stripped
                        /\ RowsIn(more.bins) = RowsIn(set[top].bins) \cup {RowOf(d.item, d.label, s)}
        OBVIOUS
    <2>1. GoodBundle(set[top], E, may, exact) /\ ~set[top].stripped /\ SoundBins(set[top].bins, idx)
        BY <1>5, <1>6
    <2> HIDE DEF top, s
    <2>2. more.stripped = set[top].stripped
        BY <2>1 DEF MultiInsertForReal, GoodBundle
    <2>3. SoundBins(more.bins, idx) /\ RowsIn(more.bins) = RowsIn(set[top].bins) \cup {RowOf(d.item, d.label, s)}
        BY <1>1, <2>1, InsertRow
    <2> QED
        BY <2>1, <2>2, <2>3
<1>8. SoundBins(fresh.bins, idx) /\ ~fresh.stripped /\ RowsIn(fresh.bins) = {RowOf(d.item, d.label, s)}
    <2>1. /\ GoodBundle(NewBundle, E, may, exact) /\ ~NewBundle.stripped /\ NewBundle.bins = EmptyBins
          /\ SoundBins(NewBundle.bins, idx) /\ RowsIn(NewBundle.bins) = {}
        BY NewBundleIsGood, NoRows DEF NewBundle, EmptyBins
    <2>2. fresh.stripped = NewBundle.stripped
        BY DEF MultiInsertForReal, NewBundle
    <2> HIDE DEF s
    <2>3. SoundBins(fresh.bins, idx) /\ RowsIn(fresh.bins) = RowsIn(NewBundle.bins) \cup {RowOf(d.item, d.label, s)}
        BY <1>1, <2>1, InsertRow
    <2> QED
        BY <2>1, <2>2, <2>3
<1>9. DOMAIN V = DOMAIN set /\ \A j \in DOMAIN set : V[j] = set[j].bins
    BY DEF BinsOf
<1> DEFINE Same(m) == OneRowMore(V, W, m, RowOf(d.item, d.label, s))
<1>10. ASSUME stops = {}
       PROVE  /\ ~out.threw /\ RowSet(out.set, idx)
              /\ Same(Len(set) + 1)
    <2> DEFINE all == Append(set, fresh)
    <2> HIDE DEF fresh, out, s, stops, top, more, insertable
    <2>0. out = Result(all, FALSE)
        BY <1>3, <1>10, Zenon
    <2>1. out.set = all /\ out.threw = FALSE
        BY <2>0, Zenon DEF Result
    <2>2. /\ DOMAIN all = 1 .. Len(set) + 1 /\ \A j \in 1 .. Len(set) : all[j] = set[j]
          /\ all[Len(set) + 1] = fresh
        BY <1>4, AppendToSeq
    <2> HIDE DEF all
    <2>3. DOMAIN all = DOMAIN set \cup {Len(set) + 1} /\ Len(set) + 1 \notin DOMAIN set
        BY <1>4, <2>2
    <2>4. DOMAIN W = DOMAIN all /\ \A j \in DOMAIN all : W[j] = all[j].bins
        BY <2>1 DEF BinsOf
    <2> HIDE DEF V, W
    <2>5. \A j \in DOMAIN set : W[j] = V[j]
        BY <1>4, <1>9, <2>2, <2>3, <2>4
    <2>6. W[Len(set) + 1] = fresh.bins
        BY <2>2, <2>3, <2>4
    <2>7. Same(Len(set) + 1)
        BY <1>8, <1>9, <2>3, <2>4, <2>5, <2>6 DEF RowAt, OneRowMore
    <2>8. RowSet(all, idx)
        BY <1>4, <1>5, <1>8, <2>2, <2>3 DEF RowSet
    <2> QED
        BY <2>1, <2>7, <2>8
<1>11. ASSUME stops # {}
       PROVE  ~out.threw /\ RowSet(out.set, idx) /\ Same(top)
    <2> DEFINE all == [set EXCEPT ![top] = more]
    <2>0. top \in DOMAIN set /\ ~set[top].stripped
        BY <1>5, <1>6, <1>11
    <2>1. out.set = all /\ out.threw = FALSE
        <3> HIDE DEF fresh, out, s, stops, top, more
        <3>1. out = Result(all, FALSE)
            BY <1>3, <1>11, <2>0, Zenon
        <3> QED
            BY <3>1 DEF Result
    <2>2. /\ SoundBins(more.bins, idx) /\ ~more.stripped
          /\ RowsIn(more.bins) = RowsIn(set[top].bins) \cup {RowOf(d.item, d.label, s)}
        BY <1>7, <1>11
    <2> HIDE DEF more, out, s, stops, top
    <2>3. DOMAIN all = DOMAIN set /\ all[top] = more /\ \A j \in DOMAIN set \ {top} : all[j] = set[j]
        BY <1>4, <2>0, UpdateSeq
    <2> HIDE DEF all
    <2>4. DOMAIN W = DOMAIN all /\ \A j \in DOMAIN all : W[j] = all[j].bins
        BY <2>1 DEF BinsOf
    <2> HIDE DEF V, W
    <2>5. \A j \in DOMAIN set \ {top} : W[j] = V[j]
        BY <1>9, <2>3, <2>4
    <2>6. W[top] = more.bins /\ V[top] = set[top].bins
        BY <1>9, <2>0, <2>3, <2>4
    <2>7. Same(top)
        BY <1>9, <2>0, <2>2, <2>3, <2>4, <2>5, <2>6 DEF RowAt, OneRowMore
    <2>8. RowSet(all, idx)
        BY <1>5, <2>2, <2>3 DEF RowSet
    <2> QED
        BY <2>1, <2>7, <2>8
<1>12. PICK m : ~out.threw /\ RowSet(out.set, idx) /\ Same(m)
    <2> HIDE DEF stops, top, V, W, out, Same
    <2> QED
        BY <1>10, <1>11
<1>13. /\ \A o, t, c : Told(V, o, t, c) /\ (o # d.item \/ t # s) => Told(W, o, t, c)
       /\ Told(V, d.item, s, Absent) => Told(W, d.item, s, d.label)
    <2>1. d.label \in Labels /\ Absent \notin Labels /\ Same(m)
        BY <1>12
    <2> HIDE DEF V, W, s, out
    <2> QED
        BY <2>1, ToldInserted, Zenon
<1> QED
    BY <1>12, <1>13, Zenon

\* The bundles that are kept, and where they were.
KeptFrom(set, n, left) ==
    /\ IsSeq(left)
    /\ \E h \in [DOMAIN left -> 1 .. n] :
          /\ \A k, m \in DOMAIN left : h[k] = h[m] => k = m
          /\ \A k \in DOMAIN left : left[k] = set[h[k]]
          /\ \A j \in 1 .. n : ~Empty(set[j]) => \E k \in DOMAIN left : h[k] = j

\* One bundle more is looked at.
LEMMA KeptStep ==
    ASSUME NEW set, NEW n \in Nat, n > 0, NEW old, KeptFrom(set, n - 1, old), NEW new,
           new = IF Empty(set[n]) THEN old ELSE Append(old, set[n])
    PROVE  KeptFrom(set, n, new)
<1>1. PICK h \in [DOMAIN old -> 1 .. n - 1] :
          /\ \A k, m \in DOMAIN old : h[k] = h[m] => k = m
          /\ \A k \in DOMAIN old : old[k] = set[h[k]]
          /\ \A j \in 1 .. n - 1 : ~Empty(set[j]) => \E k \in DOMAIN old : h[k] = j
    BY DEF KeptFrom
<1>2. IsSeq(old) /\ Len(old) \in Nat /\ DOMAIN old = 1 .. Len(old)
    BY IsSeqFacts DEF KeptFrom
<1>3. CASE Empty(set[n])
    <2>1. h \in [DOMAIN old -> 1 .. n]
        <3>1. 1 .. n - 1 \subseteq 1 .. n
            OBVIOUS
        <3> QED
            BY <3>1
    <2>2. \A j \in 1 .. n : ~Empty(set[j]) => \E k \in DOMAIN old : h[k] = j
        BY <1>1, <1>3
    <2>3. KeptFrom(set, n, old)
        BY <1>1, <1>2, <2>1, <2>2, Zenon DEF KeptFrom
    <2> QED
        BY <1>3, <2>3
<1>4. CASE ~Empty(set[n])
    <2> DEFINE L == Len(old) + 1
               g == [k \in 1 .. L |-> IF k = L THEN n ELSE h[k]]
    <2>1. /\ IsSeq(new) /\ DOMAIN new = 1 .. L /\ new[L] = set[n]
          /\ \A k \in 1 .. Len(old) : new[k] = old[k]
        BY <1>2, <1>4, AppendToSeq
    <2>2. \A k \in DOMAIN old : k # L /\ k \in 1 .. L /\ h[k] \in 1 .. n - 1
        BY <1>1, <1>2
    <2>3. \A k \in 1 .. L : k = L \/ k \in DOMAIN old
        BY <1>2
    <2>4. g[L] = n /\ \A k \in DOMAIN old : g[k] = h[k]
        BY <1>2, <2>2
    <2>5. g \in [DOMAIN new -> 1 .. n]
        BY <2>1, <2>2, <2>3
    <2> HIDE DEF g
    <2>6. \A k, m \in DOMAIN new : g[k] = g[m] => k = m
        BY <1>1, <2>1, <2>2, <2>3, <2>4
    <2>7. \A k \in DOMAIN new : new[k] = set[g[k]]
        BY <1>1, <1>2, <2>1, <2>3, <2>4
    <2>8. \A j \in 1 .. n : ~Empty(set[j]) => \E k \in DOMAIN new : g[k] = j
        <3> SUFFICES ASSUME NEW j \in 1 .. n, ~Empty(set[j]) PROVE \E k \in DOMAIN new : g[k] = j
            OBVIOUS
        <3>1. CASE j = n
            BY <1>2, <2>1, <2>4, <3>1
        <3>2. CASE j # n
            <4>1. j \in 1 .. n - 1
                BY <3>2
            <4>2. PICK k \in DOMAIN old : h[k] = j
                BY <1>1, <4>1
            <4> QED
                BY <2>1, <2>2, <2>4, <4>2
        <3> QED
            BY <3>1, <3>2
    <2> QED
        BY <2>1, <2>5, <2>6, <2>7, <2>8 DEF KeptFrom
<1> QED
    BY <1>3, <1>4

\* The bundles left are those that are not empty.
LEMMA NonEmptyFrom ==
    ASSUME NEW set, IsSeq(set) PROVE KeptFrom(set, Len(set), NonEmptyBundles(set))
<1> DEFINE n == Len(set)
           kept == CHOOSE g : Kept(set, g, n)
           S == {m \in 0 .. n : KeptFrom(set, m, kept[m])}
<1>1. n \in Nat
    BY IsSeqFacts
<1>2. Kept(set, kept, n)
    BY <1>1, KeptExists
<1>3. NonEmptyBundles(set) = kept[n]
    BY Zenon DEF NonEmptyBundles, Kept
<1> HIDE DEF kept, n
<1>4. \A m \in 0 .. n : kept[m] = IF m = 0 THEN <<>>
          ELSE IF Empty(set[m]) THEN kept[m - 1] ELSE Append(kept[m - 1], set[m])
    BY <1>2, Zenon DEF Kept
<1>5. 0 \in S
    <2>1. kept[0] = <<>>
        BY <1>1, <1>4
    <2>2. IsSeq(<<>>) /\ DOMAIN <<>> = {}
        BY DEF IsSeq
    <2>3. <<>> \in [{} -> 1 .. 0]
        OBVIOUS
    <2>4. 1 .. 0 = {}
        OBVIOUS
    <2>5. KeptFrom(set, 0, <<>>)
        BY <2>2, <2>3, <2>4 DEF KeptFrom
    <2> QED
        BY <1>1, <2>1, <2>5
<1>6. ASSUME NEW m \in 1 .. n, m - 1 \in S PROVE m \in S
    <2>1. KeptFrom(set, m - 1, kept[m - 1]) /\ m \in Nat /\ m > 0 /\ m \in 0 .. n
        BY <1>1, <1>6
    <2>2. kept[m] = IF Empty(set[m]) THEN kept[m - 1] ELSE Append(kept[m - 1], set[m])
        BY <1>4, <2>1
    <2>3. KeptFrom(set, m, kept[m])
        BY <2>1, <2>2, KeptStep, Zenon
    <2> QED
        BY <2>1, <2>3
<1>7. 0 .. n \subseteq S
    <2> HIDE DEF S
    <2> QED
        BY <1>1, <1>5, <1>6, UpTo
<1>8. KeptFrom(set, n, kept[n])
    BY <1>1, <1>7
<1> QED
    BY <1>3, <1>8 DEF n

\* Dropping the empty bundles moves rows, and changes none.
LEMMA NonEmptyRows ==
    ASSUME NEW E, NEW may, NEW exact, NEW set, GoodSet(set, E, may, exact),
           NEW idx, RowSet(set, idx)
    PROVE  /\ RowSet(NonEmptyBundles(set), idx)
           /\ \A i, s, c : Told(BinsOf(set), i, s, c) => Told(BinsOf(NonEmptyBundles(set)), i, s, c)
<1> DEFINE left == NonEmptyBundles(set)
           V == BinsOf(set)
           W == BinsOf(left)
<1>1. IsSeq(set) /\ DOMAIN set = 1 .. Len(set)
    BY IsSeqFacts DEF GoodSet
<1>2. KeptFrom(set, Len(set), left)
    BY <1>1, NonEmptyFrom
<1> HIDE DEF left
<1>3. PICK h \in [DOMAIN left -> DOMAIN set] :
          /\ \A k, m \in DOMAIN left : h[k] = h[m] => k = m
          /\ \A k \in DOMAIN left : left[k] = set[h[k]]
          /\ \A j \in DOMAIN set : ~Empty(set[j]) => \E k \in DOMAIN left : h[k] = j
    <2>1. PICK h \in [DOMAIN left -> 1 .. Len(set)] :
              /\ \A k, m \in DOMAIN left : h[k] = h[m] => k = m
              /\ \A k \in DOMAIN left : left[k] = set[h[k]]
              /\ \A j \in 1 .. Len(set) : ~Empty(set[j]) => \E k \in DOMAIN left : h[k] = j
        BY <1>2 DEF KeptFrom
    <2>2. h \in [DOMAIN left -> DOMAIN set]
        BY <1>1
    <2>3. \A j \in DOMAIN set : ~Empty(set[j]) => \E k \in DOMAIN left : h[k] = j
        BY <1>1, <2>1
    <2> QED
        BY <2>1, <2>2, <2>3
<1>4. /\ DOMAIN V = DOMAIN set /\ \A j \in DOMAIN set : V[j] = set[j].bins
      /\ DOMAIN W = DOMAIN left /\ \A k \in DOMAIN left : W[k] = left[k].bins
    BY DEF BinsOf
<1>5. RowSet(left, idx)
    BY <1>3 DEF RowSet
<1>6. ASSUME NEW j \in DOMAIN set, RowsIn(V[j]) # {} PROVE ~Empty(set[j])
    <2>1. DOMAIN set[j].bins = BinIdx
        BY DEF GoodSet, GoodBundle, RowSet
    <2> QED
        BY <1>4, <1>6, <2>1, NoRows DEF Empty
<1> HIDE DEF V, W
<1>7. h \in [DOMAIN W -> DOMAIN V]
    BY <1>4
<1>8. /\ \A k, m \in DOMAIN W : h[k] = h[m] => k = m
      /\ \A k \in DOMAIN W : RowsIn(W[k]) = RowsIn(V[h[k]])
      /\ \A j \in DOMAIN V : RowsIn(V[j]) # {} => \E k \in DOMAIN W : h[k] = j
    BY <1>3, <1>4, <1>6
<1>9. \A i, s, c : Told(V, i, s, c) => Told(W, i, s, c)
    BY <1>7, <1>8, ToldThere
<1> QED
    BY <1>5, <1>9 DEF V, W, left

\* remove_worker at one location, as an operation on rows.
LEMMA RemoveItemRows ==
    ASSUME Labeled, ItemsApart, NEW E, NEW may, NEW exact, NEW set, GoodSet(set, E, may, exact),
           NEW idx, RowSet(set, idx), NEW d \in Datum, NEW loc \in Nat, Lies(d.item, BinOf(loc), idx)
    PROVE  LET out == RemoveItem(set, WorkFor(d, loc))
           IN  /\ RowSet(out.set, idx)
               /\ \A o, t, c : Told(BinsOf(set), o, t, c) /\ (o # d.item \/ t # BinOf(loc))
                                  => Told(BinsOf(out.set), o, t, c)
               /\ \A c : Told(BinsOf(set), d.item, BinOf(loc), c)
                            => /\ Told(BinsOf(out.set), d.item, BinOf(loc), Absent)
                               /\ c # Absent => ~out.threw
<1> DEFINE data == Algebraize(d)
           s == BinOf(loc)
           V == BinsOf(set)
           out == RemoveItem(set, WorkFor(d, loc))
           W == BinsOf(out.set)
           stops == {j \in DOMAIN set : set[j].stripped \/ Holds(set[j].bins, data, s)}
           top == Min(stops)
           less == [set EXCEPT ![top] = MultiRemove(set[top], data, s)]
<1>1. s \in Starts /\ Lies(d.item, s, idx)
    BY PlaceOf
<1>2. WorkFor(d, loc).data = data /\ WorkFor(d, loc).loc = loc
    BY DEF WorkFor
<1>3. out = IF stops = {} THEN Result(NonEmptyBundles(set), TRUE)
            ELSE IF set[top].stripped THEN Result(set, TRUE) ELSE Result(NonEmptyBundles(less), FALSE)
    BY <1>2, Zenon DEF RemoveItem
<1>4. IsSeq(set) /\ Len(set) \in Nat /\ DOMAIN set = 1 .. Len(set)
    BY IsSeqFacts DEF GoodSet
<1>5. \A j \in DOMAIN set :
          GoodBundle(set[j], E, may, exact) /\ ~set[j].stripped /\ SoundBins(set[j].bins, idx) /\ DOMAIN set[j].bins = BinIdx
    BY DEF GoodSet, RowSet, GoodBundle
<1>6. \A j \in DOMAIN set : \A k \in BinIdx : GoodBin(set[j].bins[k], E) /\ IsSeq(set[j].bins[k])
    BY <1>5 DEF GoodBundle, GoodBin
<1>7. DOMAIN V = DOMAIN set /\ \A j \in DOMAIN set : V[j] = set[j].bins
    BY DEF BinsOf
<1>8. \A j \in DOMAIN set : j \in stops <=> \E l \in Labels : RowAt(V, j, d.item, l, s)
    <2> SUFFICES ASSUME NEW j \in DOMAIN set
                 PROVE  j \in stops <=> \E l \in Labels : RowAt(V, j, d.item, l, s)
        OBVIOUS
    <2>1. j \in stops <=> Holds(set[j].bins, data, s)
        BY <1>5
    <2> HIDE DEF s, stops, V
    <2>2. Holds(set[j].bins, data, s) <=> \E l \in Labels : RowOf(d.item, l, s) \in RowsIn(set[j].bins)
        BY <1>1, <1>5, <1>6, HoldsRow
    <2> QED
        BY <1>7, <2>1, <2>2 DEF RowAt
<1> HIDE DEF data
<1>9. CASE stops = {}
    <2>1. out.set = NonEmptyBundles(set) /\ out.threw = TRUE
        <3> HIDE DEF out, stops, top, less
        <3>1. out = Result(NonEmptyBundles(set), TRUE)
            BY <1>3, <1>9, Zenon
        <3> QED
            BY <3>1 DEF Result
    <2> HIDE DEF out, s, less
    <2>2. RowSet(out.set, idx) /\ \A o, t, c : Told(V, o, t, c) => Told(W, o, t, c)
        BY <2>1, NonEmptyRows
    <2> HIDE DEF V, W
    <2>3. \A c : Told(V, d.item, s, c) => c = Absent
        BY <1>7, <1>8, <1>9 DEF Told
    <2> QED
        BY <2>1, <2>2, <2>3 DEF V, W, out, s
<1>10. CASE stops # {}
    <2>1. top \in stops
        <3>1. stops \in SUBSET Nat
            BY <1>4
        <3> HIDE DEF stops
        <3> QED
            BY <1>10, <3>1, LeastOf, Zenon
    <2>2. top \in DOMAIN set
        BY <2>1
    <2> DEFINE b == set[top]
               c == MultiRemove(b, data, s)
    <2>3. GoodBundle(b, E, may, exact) /\ ~b.stripped /\ SoundBins(b.bins, idx)
        BY <1>5, <2>2
    <2>4. PICK l \in Labels : RowAt(V, top, d.item, l, s)
        <3> HIDE DEF stops, top, V, s
        <3> QED
            BY <1>8, <2>1, <2>2
    <2>5. RowOf(d.item, l, s) \in RowsIn(b.bins)
        <3> HIDE DEF top, V, s
        <3> QED
            BY <1>7, <2>2, <2>4 DEF RowAt
    <2>6. Holds(b.bins, data, s)
        BY <2>1, <2>3
    <2>7. out.set = NonEmptyBundles(less) /\ out.threw = FALSE
        <3> HIDE DEF out, stops, top, less
        <3>1. out = Result(NonEmptyBundles(less), FALSE)
            BY <1>3, <1>10, <2>3, Zenon
        <3> QED
            BY <3>1 DEF Result
    <2> HIDE DEF top, stops, out
    <2> DEFINE U == BinsOf(less)
    <2>8. GoodBundle(c, E, may, exact) /\ c.stripped = b.stripped
        <3> HIDE DEF b, s
        <3>1. c.stripped = b.stripped
            BY <2>3 DEF MultiRemove, GoodBundle
        <3> QED
            BY <2>3, <2>6, <3>1, RemoveIsGood
    <2>9. SoundBins(c.bins, idx) /\ RowsIn(c.bins) = RowsIn(b.bins) \ {RowOf(d.item, l, s)}
        <3> HIDE DEF b, s
        <3>1. c = MultiRemove(b, Algebraize(d), s)
            BY DEF data
        <3>2. /\ SoundBins(MultiRemove(b, Algebraize(d), s).bins, idx)
              /\ RowsIn(MultiRemove(b, Algebraize(d), s).bins) = RowsIn(b.bins) \ {RowOf(d.item, l, s)}
            <4>1. Labeled /\ GoodBundle(b, E, may, exact) /\ ~b.stripped /\ SoundBins(b.bins, idx)
                BY <2>3
            <4>2. d \in Datum /\ s \in Starts
                BY <1>1
            <4>3. RowOf(d.item, l, s) \in RowsIn(b.bins)
                BY <2>5
            <4> QED
                BY <4>1, <4>2, <4>3, RemoveRow
        <3> HIDE DEF c
        <3> QED
            BY <3>1, <3>2, Zenon
    <2> HIDE DEF c
    <2>10. DOMAIN less = DOMAIN set /\ less[top] = c /\ \A j \in DOMAIN set \ {top} : less[j] = set[j]
        BY <1>4, <2>2, UpdateSeq DEF c
    <2>11. GoodSet(less, E, may, exact)
        <3>1. less = [set EXCEPT ![top] = c]
            BY DEF c
        <3> HIDE DEF less
        <3> QED
            BY <2>2, <2>8, <3>1, UpdateSet, Zenon
    <2> HIDE DEF less, s
    <2>12. RowSet(less, idx)
        BY <1>5, <2>3, <2>8, <2>9, <2>10 DEF RowSet
    <2>13. DOMAIN U = DOMAIN less /\ \A j \in DOMAIN less : U[j] = less[j].bins
        BY DEF BinsOf
    <2> HIDE DEF U, V
    <2>14. OneRowLess(V, U, top, RowOf(d.item, l, s))
        <3>1. \A j \in DOMAIN set \ {top} : U[j] = V[j]
            BY <1>7, <2>10, <2>13
        <3>2. U[top] = c.bins /\ V[top] = b.bins
            BY <1>7, <2>2, <2>10, <2>13
        <3> HIDE DEF b
        <3> QED
            BY <1>7, <2>9, <2>10, <2>13, <3>1, <3>2 DEF OneRowLess, RowAt
    <2>15. /\ \A o, t, n : Told(V, o, t, n) /\ (o # d.item \/ t # s) => Told(U, o, t, n)
           /\ \A n : Told(V, d.item, s, n) => n # Absent /\ Told(U, d.item, s, Absent)
        <3>1. top \in DOMAIN V
            BY <1>7, <2>2
        <3> QED
            BY <2>4, <2>14, <3>1, ToldRemoved, Zenon
    <2>16. RowSet(out.set, idx) /\ \A o, t, n : Told(U, o, t, n) => Told(W, o, t, n)
        BY <2>7, <2>11, <2>12, NonEmptyRows DEF U
    <2> HIDE DEF W
    <2> QED
        BY <2>7, <2>15, <2>16 DEF V, W, out, s
<1> QED
    BY <1>9, <1>10

(***************************************************************************)
(* Sequences put together from the parts of a family: where each position  *)
(* comes from.                                                             *)
(***************************************************************************)
\* Position x of s is position pos[x] of part who[x]; the parts follow each other,
\* and nothing of them is missing or comes twice.
ComesFrom(s, p, K, who, pos) ==
    /\ \A x \in DOMAIN s : who[x] \in K /\ pos[x] \in DOMAIN p[who[x]] /\ s[x] = p[who[x]][pos[x]]
    /\ \A x, y \in DOMAIN s : x < y => who[x] <= who[y]
    /\ \A x, y \in DOMAIN s : who[x] = who[y] /\ pos[x] = pos[y] => x = y
    /\ \A k \in K : \A a \in DOMAIN p[k] : \E x \in DOMAIN s : who[x] = k /\ pos[x] = a

\* The sequence s is the parts in K strung together.
Strung(s, p, K) == IsSeq(s) /\ \E who, pos : ComesFrom(s, p, K, who, pos)

\* A single part is strung from itself.
LEMMA OnePart ==
    ASSUME NEW p, NEW k \in Nat, IsSeq(p[k])
    PROVE  Strung(p[k], p, k .. k)
<1> DEFINE who == [x \in DOMAIN p[k] |-> k]
           pos == [x \in DOMAIN p[k] |-> x]
<1>1. \A x \in DOMAIN p[k] : who[x] = k /\ pos[x] = x
    OBVIOUS
<1>2. \A j \in k .. k : j = k
    OBVIOUS
<1>3. k \in k .. k /\ k <= k
    OBVIOUS
<1> HIDE DEF who, pos
<1>4. ComesFrom(p[k], p, k .. k, who, pos)
    <2>1. \A x \in DOMAIN p[k] :
              who[x] \in k .. k /\ pos[x] \in DOMAIN p[who[x]] /\ p[k][x] = p[who[x]][pos[x]]
        BY <1>1, <1>3
    <2>2. \A x, y \in DOMAIN p[k] : x < y => who[x] <= who[y]
        BY <1>1, <1>3
    <2>3. \A x, y \in DOMAIN p[k] : who[x] = who[y] /\ pos[x] = pos[y] => x = y
        BY <1>1
    <2>4. \A j \in k .. k : \A a \in DOMAIN p[j] : \E x \in DOMAIN p[k] : who[x] = j /\ pos[x] = a
        BY <1>1, <1>2
    <2> QED
        BY <2>1, <2>2, <2>3, <2>4 DEF ComesFrom
<1> QED
    BY <1>4 DEF Strung

\* Nothing is strung from no parts.
LEMMA NoPart ==
    ASSUME NEW p, NEW k \in Nat
    PROVE  Strung(<<>>, p, k + 1 .. k)
<1>1. IsSeq(<<>>) /\ DOMAIN <<>> = {}
    BY DEF IsSeq
<1>2. k + 1 .. k = {}
    OBVIOUS
<1>3. ComesFrom(<<>>, p, k + 1 .. k, <<>>, <<>>)
    BY <1>1, <1>2 DEF ComesFrom
<1> QED
    BY <1>1, <1>3 DEF Strung

\* One part more at the end.
LEMMA PartMore ==
    ASSUME NEW s, NEW p, NEW a \in Nat, NEW n \in Nat, a <= n + 1, Strung(s, p, a .. n), IsSeq(p[n + 1])
    PROVE  Strung(s \o p[n + 1], p, a .. n + 1)
<1>1. PICK who, pos : ComesFrom(s, p, a .. n, who, pos)
    BY DEF Strung
<1> DEFINE t == p[n + 1]
           l == Len(s)
           u == s \o t
           who2 == [x \in DOMAIN u |-> IF x <= l THEN who[x] ELSE n + 1]
           pos2 == [x \in DOMAIN u |-> IF x <= l THEN pos[x] ELSE x - l]
<1>2. IsSeq(s)
    BY DEF Strung
<1>3. l \in Nat /\ Len(t) \in Nat /\ DOMAIN s = 1 .. l /\ DOMAIN t = 1 .. Len(t)
    BY <1>2, IsSeqFacts
<1>4. /\ IsSeq(u) /\ DOMAIN u = 1 .. l + Len(t)
      /\ \A i \in DOMAIN s : u[i] = s[i]
      /\ \A i \in DOMAIN t : u[l + i] = t[i]
    <2>1. IsSeq(t)
        OBVIOUS
    <2> HIDE DEF t, who2, pos2, l, u
    <2>2. IsSeq(s \o t) /\ DOMAIN (s \o t) = 1 .. Len(s) + Len(t)
        BY <1>2, <2>1, ConcatSeqs, Zenon
    <2>3. /\ \A i \in DOMAIN s : (s \o t)[i] = s[i]
          /\ \A i \in DOMAIN t : (s \o t)[Len(s) + i] = t[i]
        <3>1. PICK S : s \in Seq(S) /\ t \in Seq(S)
            BY <1>2, <2>1, InOneSeq, Zenon
        <3> QED
            BY <3>1
    <2> QED
        BY <2>2, <2>3 DEF l, u
<1>5. ASSUME NEW x \in DOMAIN u
      PROVE  \/ x \in DOMAIN s /\ x <= l /\ who2[x] = who[x] /\ pos2[x] = pos[x] /\ u[x] = s[x]
             \/ /\ x \notin DOMAIN s /\ x > l /\ who2[x] = n + 1 /\ pos2[x] = x - l
                /\ x - l \in DOMAIN t /\ u[x] = t[x - l]
    <2>1. CASE x <= l
        <3>1. x \in DOMAIN s
            BY <1>3, <1>4, <2>1
        <3>2. who2[x] = who[x] /\ pos2[x] = pos[x]
            BY <2>1
        <3> QED
            BY <1>4, <2>1, <3>1, <3>2
    <2>2. CASE ~(x <= l)
        <3>1. x \in Nat /\ x > l /\ x - l \in DOMAIN t /\ x \notin DOMAIN s
            BY <1>3, <1>4, <2>2
        <3>2. who2[x] = n + 1 /\ pos2[x] = x - l
            BY <2>2
        <3>3. l + (x - l) = x
            BY <1>3, <3>1
        <3>4. u[l + (x - l)] = t[x - l]
            BY <1>4, <3>1
        <3> QED
            BY <3>1, <3>2, <3>3, <3>4
    <2> QED
        BY <2>1, <2>2
<1>6. \A i \in DOMAIN t : l + i \in DOMAIN u /\ l + i > l /\ (l + i) - l = i
    BY <1>3, <1>4
<1>7. \A i \in DOMAIN s : i \in DOMAIN u /\ i <= l
    BY <1>3, <1>4
<1>8. /\ \A x \in DOMAIN s : who[x] \in a .. n /\ pos[x] \in DOMAIN p[who[x]] /\ s[x] = p[who[x]][pos[x]]
      /\ \A x, y \in DOMAIN s : x < y => who[x] <= who[y]
      /\ \A x, y \in DOMAIN s : who[x] = who[y] /\ pos[x] = pos[y] => x = y
      /\ \A k \in a .. n : \A i \in DOMAIN p[k] : \E x \in DOMAIN s : who[x] = k /\ pos[x] = i
    BY <1>1, Zenon DEF ComesFrom
<1>9. \A k \in a .. n + 1 : k \in a .. n \/ k = n + 1
    OBVIOUS
<1>10. (\A k \in a .. n : k \in a .. n + 1 /\ k <= n + 1 /\ k # n + 1) /\ n + 1 \in a .. n + 1 /\ n + 1 <= n + 1
    OBVIOUS
<1>11. \A x \in DOMAIN u : x \in Int
    BY <1>3, <1>4
<1> HIDE DEF who2, pos2
<1>12. \A x \in DOMAIN u : who2[x] \in a .. n + 1 /\ pos2[x] \in DOMAIN p[who2[x]] /\ u[x] = p[who2[x]][pos2[x]]
    BY <1>5, <1>8, <1>10
<1>13. ASSUME NEW x \in DOMAIN u, NEW y \in DOMAIN u, x < y PROVE who2[x] <= who2[y]
    <2>1. CASE y \in DOMAIN s
        <3>1. x \in DOMAIN s
            BY <1>3, <1>5, <1>11, <1>13, <2>1
        <3> QED
            BY <1>5, <1>8, <1>13, <2>1, <3>1
    <2>2. CASE y \notin DOMAIN s
        <3>1. who2[y] = n + 1
            BY <1>5, <2>2
        <3>2. \A k \in a .. n + 1 : k <= n + 1
            OBVIOUS
        <3> QED
            BY <1>12, <3>1, <3>2
    <2> QED
        BY <2>1, <2>2
<1>14. ASSUME NEW x \in DOMAIN u, NEW y \in DOMAIN u, who2[x] = who2[y], pos2[x] = pos2[y] PROVE x = y
    <2>1. CASE x \in DOMAIN s /\ y \in DOMAIN s
        BY <1>5, <1>8, <1>14, <2>1
    <2>2. CASE x \notin DOMAIN s /\ y \notin DOMAIN s
        <3>1. x - l = y - l
            BY <1>5, <1>14, <2>2
        <3> QED
            BY <1>3, <1>11, <3>1
    <2>3. CASE x \in DOMAIN s /\ y \notin DOMAIN s
        <3>1. who2[x] \in a .. n /\ who2[y] = n + 1
            BY <1>5, <1>8, <2>3
        <3> QED
            BY <1>10, <1>14, <3>1
    <2>4. CASE x \notin DOMAIN s /\ y \in DOMAIN s
        <3>1. who2[y] \in a .. n /\ who2[x] = n + 1
            BY <1>5, <1>8, <2>4
        <3> QED
            BY <1>10, <1>14, <3>1
    <2> QED
        BY <2>1, <2>2, <2>3, <2>4
<1>15. ASSUME NEW k \in a .. n + 1, NEW i \in DOMAIN p[k]
       PROVE  \E x \in DOMAIN u : who2[x] = k /\ pos2[x] = i
    <2>1. CASE k \in a .. n
        <3>1. PICK x \in DOMAIN s : who[x] = k /\ pos[x] = i
            BY <1>8, <2>1
        <3>2. x \in DOMAIN u /\ who2[x] = k /\ pos2[x] = i
            BY <1>5, <1>7, <3>1
        <3> QED
            BY <3>2
    <2>2. CASE k = n + 1
        <3>1. l + i \in DOMAIN u /\ l + i > l /\ (l + i) - l = i
            BY <1>6, <2>2
        <3>2. l + i \notin DOMAIN s
            BY <1>3, <1>11, <3>1
        <3>3. who2[l + i] = n + 1 /\ pos2[l + i] = i
            BY <1>5, <3>1, <3>2
        <3> QED
            BY <2>2, <3>1, <3>3
    <2> QED
        BY <1>9, <2>1, <2>2
<1>16. ComesFrom(u, p, a .. n + 1, who2, pos2)
    <2> HIDE DEF u
    <2> QED
        BY <1>12, <1>13, <1>14, <1>15 DEF ComesFrom
<1> QED
    BY <1>4, <1>16 DEF Strung

\* The parts of a sequence of sequences.
LEMMA FlattenIsStrung ==
    ASSUME NEW T, NEW seqs \in Seq(Seq(T))
    PROVE  Strung(FlattenSeq(seqs), seqs, 1 .. Len(seqs))
<1> DEFINE N == Len(seqs)
<1>1. N \in Nat /\ \A i \in 1 .. N : seqs[i] \in Seq(T)
    OBVIOUS
<1>2. \A i \in 1 .. N : IsSeq(seqs[i])
    BY <1>1, SeqIsSeq
<1>3. CASE N = 0
    <2>1. FlattenSeq(seqs) = seqs /\ seqs = <<>>
        BY <1>3 DEF FlattenSeq
    <2>2. Strung(<<>>, seqs, 0 + 1 .. 0)
        BY NoPart
    <2>3. 0 + 1 .. 0 = 1 .. 0
        OBVIOUS
    <2> QED
        BY <1>3, <2>1, <2>2, <2>3
<1>4. CASE N # 0
    <2>1. PICK f : /\ FlattenSeq(seqs) = f[N]
                   /\ f[1] = seqs[1]
                   /\ \A i \in 2 .. N : f[i] = f[i - 1] \o seqs[i]
        BY <1>4, FlattenSteps, Zenon
    <2> DEFINE S == {i \in 0 .. N : i # 0 => Strung(f[i], seqs, 1 .. i)}
    <2>2. 0 \in S
        BY <1>1
    <2> HIDE DEF N
    <2>3. ASSUME NEW i \in 1 .. N, i - 1 \in S PROVE i \in S
        <3>0. i \in 0 .. N
            BY <1>1
        <3>1. CASE i = 1
            <4>1. Strung(seqs[1], seqs, 1 .. 1)
                BY <1>2, <2>3, <3>1, OnePart
            <4> QED
                BY <2>1, <3>0, <3>1, <4>1
        <3>2. CASE i # 1
            <4>1. i \in 2 .. N /\ i - 1 \in Nat /\ i - 1 # 0 /\ 1 <= (i - 1) + 1 /\ (i - 1) + 1 = i /\ 1 \in Nat
                BY <1>1, <3>2
            <4>2. f[i] = f[i - 1] \o seqs[i]
                BY <2>1, <4>1
            <4>3. Strung(f[i - 1], seqs, 1 .. i - 1) /\ IsSeq(seqs[(i - 1) + 1])
                BY <1>2, <2>3, <4>1
            <4>4. Strung(f[i - 1] \o seqs[(i - 1) + 1], seqs, 1 .. (i - 1) + 1)
                BY <4>1, <4>3, PartMore
            <4> QED
                BY <3>0, <4>1, <4>2, <4>4
        <3> QED
            BY <3>1, <3>2
    <2>4. 0 .. N \subseteq S
        <3> HIDE DEF S, N
        <3> QED
            BY <1>1, <2>2, <2>3, UpTo
    <2>5. N \in 0 .. N /\ N # 0
        BY <1>1, <1>4
    <2>6. Strung(f[N], seqs, 1 .. N)
        BY <2>4, <2>5
    <2> QED
        BY <2>1, <2>6 DEF N
<1> QED
    BY <1>3, <1>4

\* A sequence as long as a set is large, without repetition, has all of it.
LEMMA OneToOne ==
    ASSUME NEW K, IsFiniteSet(K), NEW f \in [1 .. Cardinality(K) -> K],
           \A m, p \in 1 .. Cardinality(K) : f[m] = f[p] => m = p
    PROVE  \A k \in K : \E m \in 1 .. Cardinality(K) : f[m] = k
<1> DEFINE c == Cardinality(K)
           D == 1 .. c
<1>1. c \in Nat
    BY FS_CardinalityType, Zenon
<1>2. f \in Injection(D, K)
    BY DEF Injection, IsInjective
<1> HIDE DEF c
<1>3. Cardinality(D) = c
    <2>1. 1 \in Int /\ c \in Int
        BY <1>1
    <2>2. Cardinality(D) = IF 1 > c THEN 0 ELSE c - 1 + 1
        BY <2>1, FS_Interval, Zenon
    <2> QED
        BY <1>1, <2>2
<1> HIDE DEF D
<1>4. Cardinality(D) = Cardinality(K)
    BY <1>3 DEF c
<1>5. f \in Surjection(D, K)
    BY <1>2, <1>4, FS_Injection, Zenon
<1>6. \A k \in K : \E m \in D : f[m] = k
    BY <1>5, Zenon DEF Surjection
<1> QED
    BY <1>6 DEF D, c

\* Every element is the m-th for some m.
LEMMA NthOnto ==
    ASSUME NEW n \in Nat, NEW K \in SUBSET (0 .. n), NEW k \in K
    PROVE  \E m \in 1 .. Cardinality(K) : Nth(K, m) = k
<1> DEFINE f == [m \in 1 .. Cardinality(K) |-> Nth(K, m)]
<1>1. IsFiniteSet(K)
    <2>1. IsFiniteSet(0 .. n)
        BY FS_Interval
    <2> QED
        BY <2>1, FS_Subset, Zenon
<1>2. f \in [1 .. Cardinality(K) -> K]
    BY NthIsIn
<1>3. \A m, p \in 1 .. Cardinality(K) : f[m] = f[p] => m = p
    BY NthDiffer
<1>4. \A m \in 1 .. Cardinality(K) : f[m] = Nth(K, m)
    OBVIOUS
<1> HIDE DEF f
<1>5. \E m \in 1 .. Cardinality(K) : f[m] = k
    BY <1>1, <1>2, <1>3, OneToOne, Zenon
<1> QED
    BY <1>4, <1>5


(***************************************************************************)
(* What a task does: each location at its bundle index of each datum once, *)
(* the data in order.                                                      *)
(***************************************************************************)
WorksOf(data, idx, task, who) ==
    /\ IsSeq(task)
    /\ \A m \in DOMAIN task :
          /\ who[m] \in DOMAIN data /\ task[m].loc \in ToSet(ItemLocs[data[who[m]].item])
          /\ BundleOf(task[m].loc) = idx /\ task[m] = WorkFor(data[who[m]], task[m].loc)
    /\ \A m, n \in DOMAIN task : m < n => who[m] <= who[n]
    /\ \A m, n \in DOMAIN task : who[m] = who[n] /\ task[m].loc = task[n].loc => m = n
    /\ \A j \in DOMAIN data : \A loc \in ToSet(ItemLocs[data[j].item]) :
          BundleOf(loc) = idx => \E m \in DOMAIN task : who[m] = j /\ task[m].loc = loc

\* The locations at one bundle index of one datum.
PartWorks(d, idx, part) ==
    /\ \A m \in DOMAIN part :
          /\ part[m].loc \in ToSet(ItemLocs[d.item])
          /\ BundleOf(part[m].loc) = idx /\ part[m] = WorkFor(d, part[m].loc)
    /\ \A m, n \in DOMAIN part : part[m].loc = part[n].loc => m = n
    /\ \A loc \in ToSet(ItemLocs[d.item]) : BundleOf(loc) = idx => \E m \in DOMAIN part : part[m].loc = loc

AnyWork == {WorkFor(d, loc) : d \in Datum, loc \in Nat}

\* The works of one datum at a bundle index: each of its locations there once.
LEMMA PartIs ==
    ASSUME NEW d \in Datum, NEW idx
    PROVE  LET part == ElementsAt(EntriesOf(d), LocsAt(d.item, idx))
           IN  part \in Seq(AnyWork) /\ PartWorks(d, idx, part)
<1> DEFINE locs == ItemLocs[d.item]
           K == LocsAt(d.item, idx)
           all == EntriesOf(d)
           part == ElementsAt(all, K)
           c == Cardinality(K)
<1>1. d.item \in Items
    BY DEF Datum
<1>2. locs \in Seq(Nat) /\ IsInjective(locs)
    BY <1>1, BundleSetAssumption, RowsAssumption
<1>3. K = {m \in DOMAIN locs : BundleOf(locs[m]) = idx}
    BY DEF LocsAt
<1>4. all = [m \in DOMAIN locs |-> WorkFor(d, locs[m])]
    BY DEF EntriesOf, WorkFor
<1> HIDE DEF locs, K, all
<1>5. Len(locs) \in Nat /\ DOMAIN locs = 1 .. Len(locs) /\ \A m \in DOMAIN locs : locs[m] \in Nat
    BY <1>2
<1>6. K \in SUBSET DOMAIN locs /\ K \in SUBSET (0 .. Len(locs))
    BY <1>3, <1>5
<1>7. all \in Seq(AnyWork) /\ DOMAIN all = DOMAIN locs
    <2>1. \A m \in 1 .. Len(locs) : WorkFor(d, locs[m]) \in AnyWork
        BY <1>5 DEF AnyWork
    <2>2. all \in [1 .. Len(locs) -> AnyWork]
        BY <1>4, <1>5, <2>1
    <2> QED
        BY <1>5, <2>2, TupleIsSeq
<1>8. part \in Seq(AnyWork)
    BY <1>6, <1>7, ElementsAtIn
<1>9. c \in Nat
    <2>1. IsFiniteSet(0 .. Len(locs))
        BY <1>5, FS_Interval
    <2> QED
        BY <1>6, <2>1, FS_Subset, FS_CardinalityType, Zenon
<1>10. DOMAIN part = 1 .. c /\ \A m \in 1 .. c : part[m] = all[Nth(K, m)]
    BY DEF ElementsAt
<1>11. \A m \in 1 .. c : Nth(K, m) \in K
    BY <1>5, <1>6, NthIsIn
<1>12. \A m, n \in 1 .. c : Nth(K, m) = Nth(K, n) => m = n
    BY <1>5, <1>6, NthDiffer
<1>13. \A k \in K : \E m \in 1 .. c : Nth(K, m) = k
    BY <1>5, <1>6, NthOnto
<1> HIDE DEF part, c
<1>14. \A m \in DOMAIN part : part[m] = WorkFor(d, locs[Nth(K, m)]) /\ part[m].loc = locs[Nth(K, m)]
    <2> SUFFICES ASSUME NEW m \in DOMAIN part
                 PROVE  part[m] = WorkFor(d, locs[Nth(K, m)]) /\ part[m].loc = locs[Nth(K, m)]
        OBVIOUS
    <2>1. Nth(K, m) \in DOMAIN locs
        BY <1>6, <1>10, <1>11
    <2>2. part[m] = WorkFor(d, locs[Nth(K, m)])
        BY <1>4, <1>10, <2>1
    <2>3. WorkFor(d, locs[Nth(K, m)]).loc = locs[Nth(K, m)]
        BY DEF WorkFor
    <2> QED
        BY <2>2, <2>3
<1>15. \A m \in DOMAIN locs : locs[m] \in ToSet(locs)
    BY DEF ToSet
<1>16. ASSUME NEW m \in DOMAIN part
       PROVE  part[m].loc \in ToSet(locs) /\ BundleOf(part[m].loc) = idx /\ part[m] = WorkFor(d, part[m].loc)
    <2>1. Nth(K, m) \in K
        BY <1>10, <1>11
    <2>2. Nth(K, m) \in DOMAIN locs /\ BundleOf(locs[Nth(K, m)]) = idx
        BY <1>3, <2>1
    <2>3. part[m].loc = locs[Nth(K, m)] /\ part[m] = WorkFor(d, locs[Nth(K, m)])
        BY <1>14
    <2> QED
        BY <1>15, <2>2, <2>3
<1>17. ASSUME NEW m \in DOMAIN part, NEW n \in DOMAIN part, part[m].loc = part[n].loc PROVE m = n
    <2>1. Nth(K, m) \in DOMAIN locs /\ Nth(K, n) \in DOMAIN locs /\ locs[Nth(K, m)] = locs[Nth(K, n)]
        BY <1>6, <1>10, <1>11, <1>14, <1>17
    <2>2. Nth(K, m) = Nth(K, n)
        BY <1>2, <2>1 DEF IsInjective
    <2> QED
        BY <1>10, <1>12, <2>2
<1>18. ASSUME NEW loc \in ToSet(locs), BundleOf(loc) = idx PROVE \E m \in DOMAIN part : part[m].loc = loc
    <2>1. PICK k \in DOMAIN locs : locs[k] = loc
        BY DEF ToSet
    <2>2. k \in K
        BY <1>3, <1>18, <2>1
    <2>3. PICK m \in 1 .. c : Nth(K, m) = k
        BY <1>13, <2>2
    <2> QED
        BY <1>10, <1>14, <2>1, <2>3
<1>19. PartWorks(d, idx, part)
    BY <1>16, <1>17, <1>18 DEF PartWorks, locs
<1> QED
    BY <1>8, <1>19 DEF part, all, K

\* The task of a bundle index is strung from the works of the data.
LEMMA TaskIs ==
    ASSUME NEW data \in Seq(Datum), NEW idx
    PROVE  \E who : WorksOf(data, idx, TaskOf(data, idx), who)
<1> DEFINE parts == [j \in DOMAIN data |-> ElementsAt(EntriesOf(data[j]), LocsAt(data[j].item, idx))]
           task == TaskOf(data, idx)
<1>1. Len(data) \in Nat /\ DOMAIN data = 1 .. Len(data) /\ \A j \in DOMAIN data : data[j] \in Datum
    OBVIOUS
<1>2. \A j \in DOMAIN data : parts[j] \in Seq(AnyWork) /\ PartWorks(data[j], idx, parts[j])
    BY <1>1, PartIs
<1>3. parts \in Seq(Seq(AnyWork)) /\ Len(parts) = Len(data)
    <2>1. parts = [j \in 1 .. Len(data) |-> parts[j]]
        BY <1>1
    <2> HIDE DEF parts
    <2>2. parts \in [1 .. Len(data) -> Seq(AnyWork)]
        BY <1>1, <1>2, <2>1
    <2> QED
        BY <1>1, <2>2, TupleIsSeq
<1>4. task = FlattenSeq(parts)
    BY DEF TaskOf
<1> HIDE DEF parts, task
<1>5. Strung(task, parts, 1 .. Len(data))
    BY <1>3, <1>4, FlattenIsStrung
<1>6. PICK who, pos : ComesFrom(task, parts, DOMAIN data, who, pos)
    BY <1>1, <1>5 DEF Strung
<1>7. IsSeq(task)
    BY <1>5 DEF Strung
<1>8. /\ \A x \in DOMAIN task : who[x] \in DOMAIN data /\ pos[x] \in DOMAIN parts[who[x]] /\ task[x] = parts[who[x]][pos[x]]
      /\ \A x, y \in DOMAIN task : x < y => who[x] <= who[y]
      /\ \A x, y \in DOMAIN task : who[x] = who[y] /\ pos[x] = pos[y] => x = y
      /\ \A k \in DOMAIN data : \A a \in DOMAIN parts[k] : \E x \in DOMAIN task : who[x] = k /\ pos[x] = a
    BY <1>6, Zenon DEF ComesFrom
<1>9. ASSUME NEW m \in DOMAIN task
      PROVE  /\ who[m] \in DOMAIN data /\ task[m].loc \in ToSet(ItemLocs[data[who[m]].item])
             /\ BundleOf(task[m].loc) = idx /\ task[m] = WorkFor(data[who[m]], task[m].loc)
    <2>1. PartWorks(data[who[m]], idx, parts[who[m]])
        BY <1>2, <1>8
    <2> DEFINE e == parts[who[m]][pos[m]]
    <2>2. who[m] \in DOMAIN data /\ pos[m] \in DOMAIN parts[who[m]] /\ task[m] = e
        BY <1>8
    <2>3. /\ e.loc \in ToSet(ItemLocs[data[who[m]].item])
          /\ BundleOf(e.loc) = idx /\ e = WorkFor(data[who[m]], e.loc)
        BY <2>1, <2>2, Zenon DEF PartWorks
    <2> HIDE DEF e
    <2> QED
        BY <2>2, <2>3
<1>10. ASSUME NEW m \in DOMAIN task, NEW n \in DOMAIN task, who[m] = who[n], task[m].loc = task[n].loc
       PROVE  m = n
    <2>1. PartWorks(data[who[m]], idx, parts[who[m]])
        BY <1>2, <1>8
    <2>2. pos[m] \in DOMAIN parts[who[m]] /\ pos[n] \in DOMAIN parts[who[m]]
        BY <1>8, <1>10
    <2>3. parts[who[m]][pos[m]].loc = parts[who[m]][pos[n]].loc
        BY <1>8, <1>10
    <2>4. pos[m] = pos[n]
        BY <2>1, <2>2, <2>3, Zenon DEF PartWorks
    <2> QED
        BY <1>8, <1>10, <2>4
<1>11. ASSUME NEW j \in DOMAIN data, NEW loc \in ToSet(ItemLocs[data[j].item]), BundleOf(loc) = idx
       PROVE  \E m \in DOMAIN task : who[m] = j /\ task[m].loc = loc
    <2>1. PICK a \in DOMAIN parts[j] : parts[j][a].loc = loc
        BY <1>2, <1>11, Zenon DEF PartWorks
    <2>2. PICK x \in DOMAIN task : who[x] = j /\ pos[x] = a
        BY <1>8
    <2>3. task[x].loc = loc
        BY <1>8, <2>1, <2>2
    <2> QED
        BY <2>2, <2>3
<1>12. WorksOf(data, idx, task, who)
    BY <1>7, <1>8, <1>9, <1>10, <1>11 DEF WorksOf
<1> QED
    BY <1>12 DEF task

==============================================================================
