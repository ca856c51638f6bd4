--------------------------- MODULE PowersDagProofs ---------------------------
(***************************************************************************)
(* Theorems about PowersDag for any sets of source and target powers, any  *)
(* number of tasks and any function that may throw.                        *)
(***************************************************************************)
EXTENDS PowersDag, FiniteSetTheorems, WellFoundedInduction, TLAPS

LEMMA MinOfNats ==
    ASSUME NEW S \in SUBSET Nat, S # {}
    PROVE  Min(S) \in S /\ \A k \in S : Min(S) <= k
<1> DEFINE R == {ss \in Nat \X Nat : ss[1] < ss[2]}
<1>1. IsWellFoundedOn(R, Nat)
    BY NatLessThanWellFounded DEF OpToRel
<1>2. \A k, n \in Nat : k < n => <<k, n>> \in R
    OBVIOUS
<1> HIDE DEF R
<1>3. PICK n \in S : \A k \in S : ~ (<<k, n>> \in R)
    BY <1>1, WFMin
<1>4. \A k \in S : k \in Nat /\ n \in Nat /\ ~ (k < n)
    BY <1>2, <1>3, Zenon
<1>5. \A k \in S : n <= k
    BY <1>4
<1> QED
    BY <1>3, <1>5 DEF Min

\* A node of power p: a source, or the product of two lower powers.
GoodNode(p, n) ==
    /\ n.depth \in 0 .. p - 1 /\ n.parents \in Nat \X Nat
    /\ IsSource(n) \/ /\ n.parents[1] \in Nat \ {0} /\ n.parents[2] \in Nat \ {0}
                      /\ n.parents[1] + n.parents[2] = p

\* The DAG as far as it has been built.
DagInv ==
    /\ pending \subseteq args.targets /\ args.targets \in SUBSET (Nat \ {0})
    /\ phase = "configuring" =>
         /\ ~configured /\ 1 \in args.targets
         /\ \A p \in pending : p # 1
         /\ \A p \in args.targets \ pending : p \in DOMAIN nodes /\ GoodNode(p, nodes[p])
    /\ target_powers \in SUBSET (Nat \ {0})
    /\ configured => /\ 1 \in target_powers
                     /\ \A p \in target_powers : p \in DOMAIN nodes /\ GoodNode(p, nodes[p])
    /\ phase = "applying" => configured

Owns(w) == wpc[w] \in {"parents", "putback", "func", "mark", "threw"}

Types ==
    /\ node_states \in [target_powers -> {"Uncomputed", "Computing", "Computed"}]
    /\ powers \in [target_powers -> Nat]
    /\ power_idx \in [Workers -> target_powers]
    /\ wpc \in [Workers -> {"queued", "look", "parents", "putback", "func", "mark", "left", "threw"}]

\* A node that is Computing has one owner.
OwnersInv ==
    /\ \A w \in Workers : Owns(w) => node_states[power_idx[w]] = "Computing"
    /\ \A v, w \in Workers : v # w /\ Owns(v) /\ Owns(w) => power_idx[v] # power_idx[w]

\* What the owner of a node knows of its parents and of its product.
ProductInv ==
    /\ \A w \in Workers : wpc[w] = "func" /\ ~IsSource(nodes[power_idx[w]]) =>
         \A p \in Parents(w) : p \in target_powers /\ node_states[p] = "Computed"
    /\ \A w \in Workers : wpc[w] = "mark" => powers[power_idx[w]] = power_idx[w]
    /\ \A p \in target_powers : IsSource(nodes[p]) \/ node_states[p] = "Computed" => powers[p] = p

\* A worker leaves only when there is nothing left to do.
LeftInv == (\E w \in Workers : wpc[w] = "left") => AllComputed

ApplyInv == phase = "applying" => Types /\ OwnersInv /\ ProductInv /\ LeftInv

PowersInv == DagInv /\ ApplyInv

\* Facts about one step, whatever the worker.
LEMMA DagUnchanged ==
    ASSUME DagInv, UNCHANGED dagVars, phase' = phase \/ phase' # "configuring",
           phase' = "applying" => configured
    PROVE  DagInv'
BY DEF DagInv, GoodNode, dagVars, IsSource

LEMMA OptimalIsGood ==
    ASSUME DagInv, phase = "configuring", NEW p \in pending, \A q \in pending : p <= q
    PROVE  GoodNode(p, Optimal(p))
<1> DEFINE good == {s \in Candidates(p) : PairDepth(p, s) < p - 1}
           D == {PairDepth(p, s) : s \in good}
           first == {s \in good : PairDepth(p, s) = Min(D)}
<1>1. p \in Nat /\ p > 1
    BY DEF DagInv
<1>2. CASE good = {}
    BY <1>1, <1>2 DEF Optimal, GoodNode
<1>3. CASE good # {}
    <2>1. ASSUME NEW s \in good
          PROVE  /\ s \in Nat \ {0} /\ p - s \in Nat \ {0}
                 /\ PairDepth(p, s) \in Nat
        <3>1. s \in Nat \ {0} /\ p - s \in Nat \ {0} /\ s < p /\ p - s < p
            BY <1>1 DEF Candidates, DagInv
        <3>2. s \in args.targets \ pending /\ p - s \in args.targets \ pending
            BY <1>1, <3>1 DEF Candidates
        <3>3. nodes[s].depth \in Nat /\ nodes[p - s].depth \in Nat
            BY <3>2 DEF DagInv, GoodNode
        <3>4. Max({nodes[s].depth, nodes[p - s].depth}) \in Nat
            <4> DEFINE a == nodes[s].depth
                       b == nodes[p - s].depth
            <4>1. a \in Nat /\ b \in Nat
                BY <3>3
            <4> HIDE DEF a, b
            <4>2. \E x \in {a, b} : \A y \in {a, b} : x >= y
                BY <4>1
            <4>3. Max({a, b}) \in {a, b}
                BY <4>2 DEF Max
            <4> QED
                BY <4>1, <4>3 DEF a, b
        <3> QED
            BY <3>1, <3>4 DEF PairDepth
    <2>2. D \in SUBSET Nat /\ D # {} /\ \A k \in D : k < p - 1
        BY <1>3, <2>1
    <2>3. Min(D) \in D /\ Min(D) \in Nat /\ Min(D) < p - 1
        BY <2>2, MinOfNats
    <2>4. first \in SUBSET Nat /\ first # {}
        BY <2>1, <2>3
    <2>5. Min(first) \in first
        BY <2>4, MinOfNats
    <2>6. Min(first) \in Nat \ {0} /\ p - Min(first) \in Nat \ {0}
        BY <2>1, <2>5
    <2>7. Optimal(p) = [depth |-> Min(D), parents |-> <<Min(first), p - Min(first)>>]
        BY <1>3 DEF Optimal
    <2> HIDE DEF good, D, first
    <2>8. Min(first) + (p - Min(first)) = p /\ Min(D) \in 0 .. p - 1
        BY <1>1, <2>3, <2>6
    <2> QED
        BY <2>3, <2>6, <2>7, <2>8 DEF GoodNode
<1> QED
    BY <1>2, <1>3

LEMMA InitInv == Init => PowersInv
BY DEF Init, PowersInv, DagInv, ApplyInv

\* Until the worker tasks run, only the DAG matters.
LEMMA ConfigureInv ==
    ASSUME PowersInv, NEW c \in Configs, Configure(c)
    PROVE  PowersInv'
<1>1. c.sources \in SUBSET Nat /\ c.targets \in SUBSET Nat
    BY PowersDagAssumption
<1>2. phase' # "applying" /\ ~configured' /\ target_powers' = {}
    BY DEF Configure
<1>3. CASE Valid(c.sources, c.targets)
    <2>1. /\ args' = c /\ pending' = c.targets \ c.sources
          /\ nodes' = [p \in DOMAIN nodes \cup c.sources |->
                         IF p \in c.sources THEN Source ELSE nodes[p]]
        BY <1>3 DEF Configure
    <2>2. 0 \notin c.targets /\ 1 \in c.sources /\ 1 \in c.targets /\ c.sources \subseteq c.targets
        BY <1>3 DEF Valid
    <2>3. \A p \in c.sources : p \in DOMAIN nodes' /\ nodes'[p] = Source
        BY <2>1
    <2>4. \A p \in c.sources : GoodNode(p, Source)
        <3>1. \A p \in c.sources : p \in Nat \ {0}
            BY <1>1, <2>2
        <3> QED
            BY <3>1 DEF GoodNode, Source, IsSource
    <2>5. \A p \in args.targets' \ pending' : p \in DOMAIN nodes' /\ GoodNode(p, nodes'[p])
        BY <2>1, <2>2, <2>3, <2>4
    <2> QED
        BY <1>1, <1>2, <2>1, <2>2, <2>5 DEF PowersInv, DagInv, ApplyInv, GoodNode, IsSource
<1>4. CASE ~Valid(c.sources, c.targets)
    <2>1. phase' = "idle" /\ UNCHANGED <<args, pending, nodes>>
        BY <1>4 DEF Configure
    <2> QED
        BY <1>2, <2>1 DEF PowersInv, DagInv, ApplyInv, GoodNode, IsSource
<1> QED
    BY <1>3, <1>4

LEMMA AddNodeInv == ASSUME PowersInv, AddNode PROVE PowersInv'
<1> DEFINE p == Min(pending)
<1>1. pending \in SUBSET Nat /\ pending # {}
    BY DEF PowersInv, DagInv, AddNode
<1>2. p \in pending /\ \A q \in pending : p <= q
    BY <1>1, MinOfNats
<1>3. GoodNode(p, Optimal(p))
    BY <1>2, OptimalIsGood DEF PowersInv, AddNode
<1>4. /\ nodes' = [q \in DOMAIN nodes \cup {p} |-> IF q = p THEN Optimal(p) ELSE nodes[q]]
      /\ pending' = pending \ {p}
      /\ phase = "configuring" /\ phase' = phase /\ args' = args
      /\ configured' = configured /\ target_powers' = target_powers
    BY DEF AddNode
<1> HIDE DEF p
<1>5. \A q \in args.targets \ pending' : q \in DOMAIN nodes' /\ GoodNode(q, nodes'[q])
    BY <1>3, <1>4 DEF PowersInv, DagInv
<1>6. DagInv'
    BY <1>1, <1>2, <1>4, <1>5 DEF PowersInv, DagInv, GoodNode, IsSource
<1> QED
    BY <1>4, <1>6 DEF PowersInv, ApplyInv

LEMMA ConfigureEndInv == ASSUME PowersInv, ConfigureEnd PROVE PowersInv'
BY DEF PowersInv, DagInv, ApplyInv, ConfigureEnd, GoodNode, IsSource

LEMMA LaunchInv == ASSUME PowersInv, Launch PROVE PowersInv'
<1>1. target_powers \in SUBSET (Nat \ {0}) /\ target_powers # {}
    BY DEF PowersInv, DagInv, Launch
<1>2. Min(target_powers) \in target_powers
    BY <1>1, MinOfNats
<1>3. DagInv'
    BY DagUnchanged DEF PowersInv, Launch
<1>4. UNCHANGED <<nodes, target_powers>>
    BY DEF Launch, dagVars
<1>5. Types'
    BY <1>1, <1>2, <1>4 DEF Launch, Types
<1>6. OwnersInv' /\ ProductInv' /\ LeftInv'
    BY <1>4 DEF Launch, OwnersInv, ProductInv, LeftInv, Owns
<1> QED
    BY <1>3, <1>5, <1>6 DEF PowersInv, ApplyInv

\* What a step of a worker leaves alone.
LEMMA WorkFrame ==
    ASSUME PowersInv, NEW w \in Workers, Work(w)
    PROVE  /\ DagInv' /\ Types /\ OwnersInv /\ ProductInv /\ LeftInv
           /\ phase = "applying" /\ UNCHANGED <<nodes, target_powers>>
           /\ power_idx[w] \in target_powers /\ After(power_idx[w]) \in target_powers
<1>1. phase = "applying" /\ phase' = phase /\ UNCHANGED dagVars
    BY DEF Work, At, Start, Leave, Skip, Grab, NoParent, Proceed, NotReady, PutBack, Func,
           FuncThrows, Mark
<1>2. DagInv /\ Types /\ OwnersInv /\ ProductInv /\ LeftInv
    BY <1>1 DEF PowersInv, ApplyInv
<1>3. DagInv'
    BY <1>1, <1>2, DagUnchanged DEF DagInv
<1>4. power_idx[w] \in target_powers /\ target_powers \in SUBSET Nat
    BY <1>2 DEF Types, DagInv
<1>5. After(power_idx[w]) \in target_powers
    <2> DEFINE higher == {q \in target_powers : q > power_idx[w]}
               S == IF higher = {} THEN target_powers ELSE higher
    <2>1. S \in SUBSET Nat /\ S # {} /\ S \subseteq target_powers
        BY <1>4
    <2>2. Min(S) \in S
        BY <2>1, MinOfNats
    <2> QED
        BY <2>1, <2>2 DEF After
<1> QED
    BY <1>1, <1>2, <1>3, <1>4, <1>5 DEF dagVars

\* The step of a worker changes the state of the one node it owns.
LEMMA WorkInv ==
    ASSUME PowersInv, NEW w \in Workers, Work(w)
    PROVE  PowersInv'
<1> DEFINE i == power_idx[w]
<1>0. /\ DagInv' /\ Types /\ OwnersInv /\ ProductInv /\ LeftInv
      /\ phase = "applying" /\ UNCHANGED <<nodes, target_powers>>
      /\ i \in target_powers /\ After(i) \in target_powers
    BY WorkFrame
<1>1. SUFFICES Types' /\ OwnersInv' /\ ProductInv' /\ LeftInv'
    BY <1>0 DEF PowersInv, ApplyInv
<1>2. CASE Start(w) \/ Leave(w)
    <2>1. /\ UNCHANGED <<node_states, powers, power_idx>>
          /\ wpc[w] \in {"queued", "look"}
          /\ \/ wpc' = [wpc EXCEPT ![w] = "look"]
             \/ wpc' = [wpc EXCEPT ![w] = "left"] /\ AllComputed
        BY <1>2 DEF Start, Leave, At, Goto
    <2> QED
        BY <1>0, <2>1 DEF Types, OwnersInv, ProductInv, LeftInv, AllComputed, Owns, Parents, IsSource
<1>3. CASE Skip(w)
    BY <1>0, <1>3 DEF Skip, At, MoveOn, Types, OwnersInv, ProductInv, LeftInv, AllComputed, Owns, Parents,
        IsSource
<1>4. CASE Grab(w)
    <2>1. /\ node_states' = [node_states EXCEPT ![i] = "Computing"]
          /\ node_states[i] = "Uncomputed" /\ wpc[w] = "look"
          /\ wpc' = [wpc EXCEPT ![w] = IF IsSource(nodes[i]) THEN "func" ELSE "parents"]
          /\ UNCHANGED <<powers, power_idx>>
        BY <1>4 DEF Grab, At, Goto
    <2>2. Types'
        BY <1>0, <2>1 DEF Types
    <2>3. OwnersInv'
        BY <1>0, <2>1 DEF Types, OwnersInv, Owns
    <2>4. ProductInv'
        BY <1>0, <2>1 DEF Types, ProductInv, Parents, IsSource
    <2>5. LeftInv'
        BY <1>0, <2>1 DEF Types, LeftInv, AllComputed
    <2> QED
        BY <2>2, <2>3, <2>4, <2>5
<1>5. CASE NoParent(w) \/ FuncThrows(w)
    <2>1. /\ wpc[w] \in {"parents", "func"} /\ wpc' = [wpc EXCEPT ![w] = "threw"]
          /\ UNCHANGED <<node_states, powers, power_idx>>
        BY <1>5 DEF NoParent, FuncThrows, At, Goto
    <2> QED
        BY <1>0, <2>1 DEF Types, OwnersInv, ProductInv, LeftInv, AllComputed, Owns, Parents, IsSource
<1>6. CASE Proceed(w) \/ NotReady(w)
    <2>1. /\ wpc[w] = "parents"
          /\ \/ /\ wpc' = [wpc EXCEPT ![w] = "func"]
                /\ \A p \in Parents(w) : p \in target_powers /\ node_states[p] = "Computed"
             \/ wpc' = [wpc EXCEPT ![w] = "putback"]
          /\ UNCHANGED <<node_states, powers, power_idx>>
        BY <1>6 DEF Proceed, NotReady, At, Goto, ParentsReady
    <2>2. Types' /\ OwnersInv'
        BY <1>0, <2>1 DEF Types, OwnersInv, Owns
    <2>3. ProductInv'
        <3>1. UNCHANGED <<nodes, target_powers>>
            BY <1>0
        <3>2. \A v \in Workers : wpc'[v] = "func" /\ ~IsSource(nodes'[power_idx'[v]]) =>
                  \A p \in Parents(v)' : p \in target_powers' /\ node_states'[p] = "Computed"
            <4>1. ASSUME NEW v \in Workers, v # w, wpc'[v] = "func", ~IsSource(nodes'[power_idx'[v]])
                  PROVE  \A p \in Parents(v)' : p \in target_powers' /\ node_states'[p] = "Computed"
                <5>1. wpc[v] = "func" /\ ~IsSource(nodes[power_idx[v]]) /\ Parents(v)' = Parents(v)
                    BY <1>0, <2>1, <3>1, <4>1 DEF Types, Parents, IsSource
                <5>2. \A p \in Parents(v) : p \in target_powers /\ node_states[p] = "Computed"
                    BY <1>0, <5>1, Zenon DEF ProductInv
                <5> QED
                    BY <2>1, <3>1, <5>1, <5>2
            <4>2. ASSUME wpc'[w] = "func"
                  PROVE  \A p \in Parents(w)' : p \in target_powers' /\ node_states'[p] = "Computed"
                <5>1. \A p \in Parents(w) : p \in target_powers /\ node_states[p] = "Computed"
                    BY <1>0, <2>1, <4>2 DEF Types
                <5>2. Parents(w)' = Parents(w)
                    BY <2>1, <3>1 DEF Parents
                <5> QED
                    BY <2>1, <3>1, <5>1, <5>2
            <4> QED
                BY <4>1, <4>2
        <3>3. \A v \in Workers : wpc'[v] = "mark" => powers'[power_idx'[v]] = power_idx'[v]
            BY <1>0, <2>1 DEF Types, ProductInv
        <3>4. \A p \in target_powers' :
                  IsSource(nodes'[p]) \/ node_states'[p] = "Computed" => powers'[p] = p
            BY <1>0, <2>1, <3>1 DEF ProductInv, IsSource
        <3> QED
            BY <3>2, <3>3, <3>4 DEF ProductInv
    <2>4. LeftInv'
        BY <1>0, <2>1 DEF Types, LeftInv, AllComputed
    <2> QED
        BY <2>2, <2>3, <2>4
<1>7. CASE PutBack(w)
    <2>1. /\ wpc[w] = "putback" /\ wpc' = [wpc EXCEPT ![w] = "look"]
          /\ node_states' = [node_states EXCEPT ![i] = "Uncomputed"]
          /\ power_idx' = [power_idx EXCEPT ![w] = After(i)]
          /\ powers' = powers
        BY <1>7 DEF PutBack, At, Goto, MoveOn
    <2>2. node_states[i] = "Computing"
        BY <1>0, <2>1 DEF OwnersInv, Owns
    <2>3. Types'
        BY <1>0, <2>1 DEF Types
    <2>4. OwnersInv'
        BY <1>0, <2>1 DEF Types, OwnersInv, Owns
    <2>5. ProductInv'
        BY <1>0, <2>1, <2>2 DEF Types, ProductInv, Parents, IsSource
    <2>6. LeftInv'
        BY <1>0, <2>1, <2>2 DEF Types, LeftInv, AllComputed
    <2> QED
        BY <2>3, <2>4, <2>5, <2>6
<1>8. CASE Func(w)
    <2>1. /\ wpc[w] = "func" /\ wpc' = [wpc EXCEPT ![w] = "mark"]
          /\ powers' = IF IsSource(nodes[i]) THEN powers
                       ELSE [powers EXCEPT ![i] = powers[nodes[i].parents[1]]
                                                  + powers[nodes[i].parents[2]]]
          /\ UNCHANGED <<node_states, power_idx>>
        BY <1>8 DEF Func, At, Goto
    <2>2. powers' \in [target_powers -> Nat] /\ powers'[i] = i
          /\ \A p \in target_powers \ {i} : powers'[p] = powers[p]
        <3>1. CASE IsSource(nodes[i])
            BY <1>0, <2>1, <3>1 DEF Types, ProductInv
        <3>2. CASE ~IsSource(nodes[i])
            <4> DEFINE p1 == nodes[i].parents[1]
                       p2 == nodes[i].parents[2]
            <4>1. p1 \in target_powers /\ p2 \in target_powers
                  /\ node_states[p1] = "Computed" /\ node_states[p2] = "Computed"
                BY <1>0, <2>1, <3>2 DEF ProductInv, Parents
            <4>2. powers[p1] = p1 /\ powers[p2] = p2
                BY <1>0, <4>1 DEF ProductInv
            <4>3. GoodNode(i, nodes[i])
                BY <1>0 DEF PowersInv, DagInv
            <4>4. p1 \in Nat /\ p2 \in Nat /\ p1 + p2 = i
                BY <3>2, <4>3 DEF GoodNode
            <4> QED
                BY <1>0, <2>1, <3>2, <4>2, <4>4 DEF Types
        <3> QED
            BY <3>1, <3>2
    <2>3. Types'
        BY <1>0, <2>1, <2>2 DEF Types
    <2>4. OwnersInv'
        BY <1>0, <2>1 DEF Types, OwnersInv, Owns
    <2>5. ProductInv'
        <3>1. /\ wpc \in [Workers -> {"queued", "look", "parents", "putback", "func", "mark", "left", "threw"}]
              /\ wpc'[w] = "mark" /\ \A v \in Workers \ {w} : wpc'[v] = wpc[v]
            BY <1>0, <2>1 DEF Types
        <3>2. power_idx \in [Workers -> target_powers] /\ UNCHANGED nodes
            BY <1>0 DEF Types
        <3>3. \A v \in Workers : wpc'[v] = "func" /\ ~IsSource(nodes'[power_idx'[v]]) =>
                  \A p \in Parents(v)' : p \in target_powers' /\ node_states'[p] = "Computed"
            BY <1>0, <2>1, <3>1, <3>2 DEF ProductInv, Parents, IsSource
        <3>4. \A v \in Workers : wpc'[v] = "mark" => powers'[power_idx'[v]] = power_idx'[v]
            <4>1. ASSUME NEW v \in Workers, v # w, wpc'[v] = "mark"
                  PROVE  powers'[power_idx'[v]] = power_idx'[v]
                <5>1. wpc[v] = "mark" /\ power_idx[v] # i /\ power_idx[v] \in target_powers
                    BY <1>0, <2>1, <3>1, <3>2, <4>1 DEF OwnersInv, Owns
                <5>2. powers[power_idx[v]] = power_idx[v]
                    BY <1>0, <5>1 DEF ProductInv
                <5> QED
                    BY <2>1, <2>2, <5>1, <5>2
            <4> QED
                BY <2>1, <2>2, <4>1
        <3>5. \A p \in target_powers' :
                  IsSource(nodes'[p]) \/ node_states'[p] = "Computed" => powers'[p] = p
            BY <1>0, <2>1, <2>2, <3>2 DEF ProductInv, IsSource
        <3> QED
            BY <3>3, <3>4, <3>5 DEF ProductInv
    <2>6. LeftInv'
        BY <1>0, <2>1 DEF Types, LeftInv, AllComputed
    <2> QED
        BY <2>3, <2>4, <2>5, <2>6
<1>9. CASE Mark(w)
    <2>1. /\ wpc[w] = "mark" /\ wpc' = [wpc EXCEPT ![w] = "look"]
          /\ node_states' = [node_states EXCEPT ![i] = "Computed"]
          /\ power_idx' = [power_idx EXCEPT ![w] = After(i)]
          /\ powers' = powers
        BY <1>9 DEF Mark, At, Goto, MoveOn
    <2>2. Types'
        BY <1>0, <2>1 DEF Types
    <2>3. OwnersInv'
        BY <1>0, <2>1 DEF Types, OwnersInv, Owns
    <2>4. ProductInv'
        BY <1>0, <2>1 DEF Types, ProductInv, Parents, IsSource
    <2>5. LeftInv'
        BY <1>0, <2>1 DEF Types, LeftInv, AllComputed
    <2> QED
        BY <2>2, <2>3, <2>4, <2>5
<1> QED
    BY <1>2, <1>3, <1>4, <1>5, <1>6, <1>7, <1>8, <1>9 DEF Work

LEMMA NextInv == ASSUME PowersInv, [Next]_vars PROVE PowersInv'
<1>1. CASE Join
    <2>1. phase' \in {"returned", "threw"} /\ UNCHANGED dagVars
        BY <1>1 DEF Join
    <2> QED
        BY <2>1, DagUnchanged DEF PowersInv, ApplyInv
<1>2. CASE UNCHANGED vars
    <2>1. UNCHANGED dagVars /\ phase' = phase /\ UNCHANGED applyVars
        BY <1>2 DEF vars
    <2>2. DagInv'
        BY <2>1, DagUnchanged DEF PowersInv, DagInv
    <2>3. ApplyInv'
        BY <2>1 DEF PowersInv, ApplyInv, Types, OwnersInv, ProductInv, LeftInv, AllComputed, Owns,
                    Parents, IsSource, dagVars, applyVars
    <2> QED
        BY <2>2, <2>3 DEF PowersInv
<1> QED
    BY <1>1, <1>2, ConfigureInv, AddNodeInv, ConfigureEndInv, LaunchInv, WorkInv DEF Next, Quiet

THEOREM PowersInvariant == Spec => []PowersInv
<1>1. Init => PowersInv
    BY InitInv
<1>2. PowersInv /\ [Next]_vars => PowersInv'
    BY NextInv
<1> QED
    BY <1>1, <1>2, PTL DEF Spec

\* In every interleaving a node marked Computed holds its power.
THEOREM ComputedPowersAreRight == Spec => []PowersAreRight
<1>1. PowersInv => PowersAreRight
    BY DEF PowersInv, ApplyInv, ProductInv, PowersAreRight
<1> QED
    BY <1>1, PowersInvariant, PTL

\* No two workers multiply into the same ciphertext, and none multiplies into
\* one that another reads.
THEOREM ProductsDoNotRace == Spec => []NoDataRace
<1>1. ASSUME PowersInv PROVE NoDataRace
    <2> SUFFICES ASSUME phase = "applying", NEW v \in Workers, NEW w \in Workers,
                        v # w, wpc[v] = "func", wpc[w] = "func"
                 PROVE  power_idx[v] # power_idx[w] /\ power_idx[v] \notin Parents(w)
        BY DEF NoDataRace
    <2>1. OwnersInv /\ ProductInv /\ Types /\ Owns(v) /\ Owns(w)
        BY <1>1 DEF PowersInv, ApplyInv, Owns
    <2>2. node_states[power_idx[v]] = "Computing"
        BY <2>1 DEF OwnersInv
    <2>3. CASE IsSource(nodes[power_idx[w]])
        <3>1. Parents(w) = {0}
            BY <2>3 DEF IsSource, Parents
        <3>2. power_idx[v] # 0
            BY <1>1, <2>1 DEF Types, PowersInv, DagInv
        <3> QED
            BY <2>1, <3>1, <3>2 DEF OwnersInv
    <2>4. CASE ~IsSource(nodes[power_idx[w]])
        BY <2>1, <2>2, <2>4 DEF OwnersInv, ProductInv
    <2> QED
        BY <2>3, <2>4
<1> QED
    BY <1>1, PowersInvariant, PTL

\* parallel_apply returns with all powers computed.
THEOREM AllPowersOnReturn == Spec => ReturnsAllPowers
<1>1. PowersInv /\ [Next]_vars =>
        (phase = "applying" /\ phase' = "returned" => \A p \in target_powers : powers[p] = p)
    <2> SUFFICES ASSUME PowersInv, [Next]_vars, phase = "applying", phase' = "returned"
                 PROVE  \A p \in target_powers : powers[p] = p
        OBVIOUS
    <2>1. Join
        BY DEF Next, Configure, AddNode, ConfigureEnd, Launch, Work, Quiet, vars, At, Start,
               Leave, Skip, Grab, NoParent, Proceed, NotReady, PutBack, Func, FuncThrows, Mark
    <2>2. 1 \in Workers /\ \A w \in Workers : wpc[w] = "left"
        BY <2>1, PowersDagAssumption DEF Join, Workers
    <2>3. AllComputed /\ ProductInv
        BY <2>2 DEF PowersInv, ApplyInv, LeftInv
    <2> QED
        BY <2>3 DEF AllComputed, ProductInv
<1>2. Spec => []PowersInv
    BY PowersInvariant
<1> QED
    BY <1>1, <1>2, PTL DEF Spec, ReturnsAllPowers
-----------------------------------------------------------------------------
(***************************************************************************)
(* The types.  nodes_ keeps what earlier calls of configure have put into  *)
(* it, so this is about all of it and not only about the target powers.    *)
(***************************************************************************)
NodeTypes == \A p \in DOMAIN nodes :
    p \in Nat \ {0} /\ nodes[p].depth \in 0 .. p - 1 /\ nodes[p].parents \in Nat \X Nat

ConfigureTypes ==
    /\ args.sources \subseteq args.targets /\ IsFiniteSet(args.sources)
    /\ configured \in BOOLEAN /\ depth \in Nat /\ source_count \in Nat
    /\ target_powers \subseteq DOMAIN nodes
    /\ phase \in {"idle", "configuring", "applying", "returned", "threw"}

ApplyTypes ==
    /\ node_states \in [DOMAIN powers -> {"Uncomputed", "Computing", "Computed"}]
    /\ \A p \in DOMAIN powers : powers[p] \in Nat
    /\ power_idx \in [Workers -> Nat]
    /\ wpc \in [Workers -> {"queued", "look", "parents", "putback", "func", "mark", "left", "threw"}]

AllTypes == NodeTypes /\ ConfigureTypes /\ ApplyTypes

LEMMA AllTypesInit == Init => AllTypes
<1> SUFFICES ASSUME Init PROVE AllTypes
    OBVIOUS
<1>1. DOMAIN nodes = {} /\ DOMAIN node_states = {} /\ DOMAIN powers = {}
    BY DEF Init
<1>2. node_states \in [{} -> {"Uncomputed", "Computing", "Computed"}]
    BY DEF Init
<1>3. IsFiniteSet(args.sources) /\ args.sources \subseteq args.targets
    BY FS_EmptySet DEF Init
<1>4. power_idx \in [Workers -> Nat] /\ wpc \in [Workers -> {"left"}]
    BY DEF Init
<1>5. NodeTypes
    BY <1>1 DEF NodeTypes
<1>6. ConfigureTypes
    BY <1>1, <1>3 DEF Init, ConfigureTypes
<1>7. ApplyTypes
    BY <1>1, <1>2, <1>4 DEF ApplyTypes
<1> QED
    BY <1>5, <1>6, <1>7 DEF AllTypes

LEMMA ApplyTypesNext == ASSUME PowersInv', ApplyTypes, [Next]_vars PROVE ApplyTypes'
<1>1. CASE phase' = "applying"
    BY <1>1 DEF PowersInv, DagInv, ApplyInv, Types, ApplyTypes
<1>2. CASE phase' # "applying"
    <2>1. UNCHANGED applyVars
        BY <1>2 DEF Next, vars, Configure, AddNode, ConfigureEnd, Launch, Join, Quiet, Work, At, Start,
               Leave, Skip, Grab, NoParent, Proceed, NotReady, PutBack, Func, FuncThrows, Mark
    <2> QED
        BY <2>1 DEF ApplyTypes, applyVars
<1> QED
    BY <1>1, <1>2

LEMMA ConfigureTypesNext ==
    ASSUME PowersInv, NodeTypes, ConfigureTypes, [Next]_vars
    PROVE  NodeTypes' /\ ConfigureTypes'
<1>1. ASSUME NEW c \in Configs, Configure(c) PROVE NodeTypes' /\ ConfigureTypes'
    <2>1. c.sources \in SUBSET Nat /\ IsFiniteSet(c.sources)
        BY PowersDagAssumption
    <2>2. CASE Valid(c.sources, c.targets)
        <3>1. 0 \notin c.sources /\ c.sources \subseteq c.targets
            BY <2>2 DEF Valid
        <3>2. /\ args' = c /\ phase' = "configuring"
              /\ nodes' = [p \in DOMAIN nodes \cup c.sources |->
                             IF p \in c.sources THEN Source ELSE nodes[p]]
            BY <1>1, <2>2 DEF Configure
        <3>3. NodeTypes'
            BY <2>1, <3>1, <3>2 DEF NodeTypes, Source
        <3>4. ConfigureTypes'
            BY <1>1, <2>1, <3>1, <3>2 DEF Configure, ConfigureTypes
        <3> QED
            BY <3>3, <3>4
    <2>3. CASE ~Valid(c.sources, c.targets)
        BY <1>1, <2>3 DEF Configure, NodeTypes, ConfigureTypes
    <2> QED
        BY <2>2, <2>3
<1>2. CASE AddNode
    <2> DEFINE p == Min(pending)
               n == Optimal(p)
    <2>1. pending \in SUBSET Nat /\ pending # {}
        BY <1>2 DEF PowersInv, DagInv, AddNode
    <2>2. p \in pending /\ \A q \in pending : p <= q
        BY <2>1, MinOfNats
    <2>3. GoodNode(p, n) /\ p \in Nat \ {0}
        BY <1>2, <2>2, OptimalIsGood DEF PowersInv, DagInv, AddNode
    <2>4. /\ nodes' = [q \in DOMAIN nodes \cup {p} |-> IF q = p THEN n ELSE nodes[q]]
          /\ depth' = Max({depth, n.depth})
          /\ UNCHANGED <<configured, target_powers, source_count, args, phase>>
        BY <1>2 DEF AddNode
    <2> HIDE DEF p, n
    <2>5. NodeTypes'
        BY <2>3, <2>4 DEF NodeTypes, GoodNode
    <2>6. depth' \in Nat
        <3>1. depth \in Nat /\ n.depth \in Nat
            BY <2>3 DEF ConfigureTypes, GoodNode
        <3>2. \E x \in {depth, n.depth} : \A y \in {depth, n.depth} : x >= y
            BY <3>1
        <3>3. Max({depth, n.depth}) \in {depth, n.depth}
            BY <3>2 DEF Max
        <3> QED
            BY <2>4, <3>1, <3>3
    <2>7. ConfigureTypes'
        BY <2>4, <2>6 DEF ConfigureTypes
    <2> QED
        BY <2>5, <2>7
<1>3. CASE ConfigureEnd
    <2>1. Cardinality(args.sources) \in Nat
        BY FS_CardinalityType DEF ConfigureTypes
    <2>2. args.targets \subseteq DOMAIN nodes
        BY <1>3 DEF ConfigureEnd, PowersInv, DagInv
    <2> QED
        BY <1>3, <2>1, <2>2 DEF ConfigureEnd, NodeTypes, ConfigureTypes
<1>4. CASE Launch \/ Join \/ Quiet \/ UNCHANGED vars
    BY <1>4 DEF Launch, Join, Quiet, vars, dagVars, NodeTypes, ConfigureTypes
<1>5. ASSUME NEW w \in Workers, Work(w) PROVE NodeTypes' /\ ConfigureTypes'
    <2>1. UNCHANGED dagVars /\ phase' = phase
        BY <1>5 DEF Work, Start, Leave, Skip, Grab, NoParent, Proceed, NotReady, PutBack, Func,
               FuncThrows, Mark
    <2> QED
        BY <2>1 DEF dagVars, NodeTypes, ConfigureTypes
<1> QED
    BY <1>1, <1>2, <1>3, <1>4, <1>5 DEF Next

\* The types of the DAG and of a run of parallel_apply (powers.h:286-294); for
\* all that configure, which forgets no node, has ever put into nodes_, the
\* depth of a node is less than its power.
THEOREM TypeCorrect == Spec => []TypeOK
<1>1. PowersInv /\ AllTypes => TypeOK
    BY DEF PowersInv, DagInv, AllTypes, NodeTypes, ConfigureTypes, ApplyTypes, TypeOK
<1>2. Init => PowersInv /\ AllTypes
    BY InitInv, AllTypesInit
<1>3. PowersInv /\ AllTypes /\ [Next]_vars => PowersInv' /\ AllTypes'
    BY NextInv, ApplyTypesNext, ConfigureTypesNext DEF AllTypes
<1> QED
    BY <1>1, <1>2, <1>3, PTL DEF Spec

-----------------------------------------------------------------------------
(***************************************************************************)
(* The depth of the nodes.                                                 *)
(***************************************************************************)
\* Whatever is false of some natural number is false of a least one.
LEMMA LeastNat ==
    ASSUME NEW T \in SUBSET Nat, T # {}
    PROVE  \E n \in T : \A k \in T : n <= k
BY MinOfNats

\* Iterating a function defines a function on the naturals.
LEMMA IterationExists ==
    ASSUME NEW D, NEW F \in [D -> D], NEW a \in D
    PROVE  \E f \in [Nat -> D] : f = [n \in Nat |-> IF n = 0 THEN a ELSE F[f[n - 1]]]
<1> DEFINE Starts(n, g) == /\ g \in [0 .. n -> D] /\ g[0] = a
                           /\ \A k \in 0 .. n : k # 0 => g[k] = F[g[k - 1]]
<1>1. \A n \in Nat : \E g : Starts(n, g)
    <2> HIDE DEF Starts
    <2> DEFINE T == {n \in Nat : ~ \E g : Starts(n, g)}
    <2> SUFFICES ASSUME T # {} PROVE FALSE
        OBVIOUS
    <2>1. PICK n \in T : \A k \in T : n <= k
        BY LeastNat
    <2>2. n \in Nat /\ ~ \E g : Starts(n, g)
        BY <2>1
    <2>3. n # 0
        <3>1. Starts(0, [k \in 0 .. 0 |-> a])
            BY DEF Starts
        <3> QED
            BY <2>2, <3>1
    <2>4. n - 1 \in Nat /\ n - 1 \notin T
        BY <2>1, <2>2, <2>3
    <2>5. PICK g : Starts(n - 1, g)
        BY <2>4
    <2>6. Starts(n, [k \in 0 .. n |-> IF k = n THEN F[g[n - 1]] ELSE g[k]])
        <3> DEFINE h == [k \in 0 .. n |-> IF k = n THEN F[g[n - 1]] ELSE g[k]]
        <3>1. g \in [0 .. n - 1 -> D] /\ g[0] = a /\ \A k \in 0 .. n - 1 : k # 0 => g[k] = F[g[k - 1]]
            BY <2>5 DEF Starts
        <3>2. F[g[n - 1]] \in D /\ \A k \in 0 .. n : k # n => g[k] \in D
            BY <2>4, <3>1
        <3>3. h \in [0 .. n -> D] /\ h[n] = F[g[n - 1]] /\ \A k \in 0 .. n : k # n => h[k] = g[k]
            BY <2>2, <3>2
        <3> HIDE DEF h
        <3>4. h[0] = a
            BY <2>2, <2>3, <3>1, <3>3
        <3>5. ASSUME NEW k \in 0 .. n, k # 0 PROVE h[k] = F[h[k - 1]]
            <4>1. k - 1 \in 0 .. n /\ k - 1 # n /\ h[k - 1] = g[k - 1]
                BY <2>2, <3>3, <3>5
            <4>2. CASE k = n
                BY <3>3, <4>1, <4>2
            <4>3. CASE k # n
                BY <2>2, <3>1, <3>3, <3>5, <4>1, <4>3
            <4> QED
                BY <4>2, <4>3
        <3> QED
            BY <3>3, <3>4, <3>5 DEF Starts, h
    <2> QED
        BY <2>2, <2>6
<1>2. ASSUME NEW m \in Nat, NEW n \in Nat, NEW g, NEW h, Starts(m, g), Starts(n, h)
      PROVE  \A k \in Nat : k <= m /\ k <= n => g[k] = h[k]
    <2> DEFINE T == {k \in Nat : k <= m /\ k <= n /\ g[k] # h[k]}
    <2> SUFFICES ASSUME T # {} PROVE FALSE
        OBVIOUS
    <2>1. PICK k \in T : \A j \in T : k <= j
        BY LeastNat
    <2>2. k # 0
        BY <1>2, <2>1
    <2>3. k - 1 \in Nat /\ k - 1 \notin T
        BY <2>1, <2>2
    <2>4. g[k - 1] = h[k - 1]
        BY <2>1, <2>3
    <2>5. g[k] = F[g[k - 1]] /\ h[k] = F[h[k - 1]]
        BY <1>2, <2>1, <2>2
    <2> QED
        BY <2>1, <2>4, <2>5
<1> DEFINE f == [n \in Nat |-> (CHOOSE g : Starts(n, g))[n]]
<1>3. ASSUME NEW n \in Nat PROVE f[n] \in D /\ (n = 0 => f[n] = a) /\ (n # 0 => f[n] = F[f[n - 1]])
    <2> DEFINE G(k) == CHOOSE g : Starts(k, g)
    <2> HIDE DEF Starts
    <2>1. \A k \in Nat : Starts(k, G(k)) /\ f[k] = G(k)[k]
        BY <1>1
    <2> HIDE DEF G, f
    <2>2. n = 0 => f[n] = a
        BY <2>1 DEF Starts
    <2>3. ASSUME n # 0 PROVE f[n] = F[f[n - 1]]
        <3>1. n - 1 \in Nat /\ n - 1 <= n /\ n - 1 <= n - 1
            BY <2>3
        <3>2. Starts(n, G(n)) /\ Starts(n - 1, G(n - 1)) /\ f[n] = G(n)[n] /\ f[n - 1] = G(n - 1)[n - 1]
            BY <2>1, <3>1
        <3>3. G(n)[n - 1] = G(n - 1)[n - 1]
            <4>1. PICK g, h : g = G(n) /\ h = G(n - 1)
                OBVIOUS
            <4>2. \A k \in Nat : k <= n /\ k <= n - 1 => g[k] = h[k]
                BY <1>2, <3>1, <3>2, <4>1
            <4> QED
                BY <3>1, <4>1, <4>2
        <3>4. G(n)[n] = F[G(n)[n - 1]]
            BY <2>3, <3>2 DEF Starts
        <3> QED
            BY <3>2, <3>3, <3>4, Zenon
    <2>4. f[n] \in D
        BY <2>1 DEF Starts
    <2> QED
        BY <2>2, <2>3, <2>4
<1> QED
    <2> DEFINE H(n) == (CHOOSE g : Starts(n, g))[n]
    <2> HIDE DEF H
    <2>1. [n \in Nat |-> H(n)] = [n \in Nat |-> [k \in Nat |-> H(k)][n]]
        OBVIOUS
    <2>2. f = [n \in Nat |-> f[n]]
        BY <2>1 DEF H
    <2> HIDE DEF f
    <2> QED
        BY <1>3, <2>2

LEMMA LevelsAre ==
    ASSUME NEW S, NEW T, S \subseteq T
    PROVE  /\ Levels(S, T)[0] = S
           /\ \A n \in Nat : Levels(S, T)[n] \subseteq T
           /\ \A n \in Nat : Levels(S, T)[n + 1] =
                 Levels(S, T)[n] \cup {p \in T : \E s \in Levels(S, T)[n] : p - s \in Levels(S, T)[n]}
<1> DEFINE D == SUBSET T
           Next1(r) == r \cup {p \in T : \E s \in r : p - s \in r}
           F == [r \in D |-> Next1(r)]
           IsLevel(x) == x = [n \in Nat |-> IF n = 0 THEN S ELSE Next1(x[n - 1])]
<1>1. F \in [D -> D] /\ S \in D
    OBVIOUS
<1>2. PICK f \in [Nat -> D] : f = [n \in Nat |-> IF n = 0 THEN S ELSE F[f[n - 1]]]
    <2> HIDE DEF F, D
    <2> QED
        BY <1>1, IterationExists
<1>3. \A n \in Nat : f[n] \in D
    BY <1>2
<1>4. IsLevel(f)
    <2>1. ASSUME NEW n \in Nat PROVE (IF n = 0 THEN S ELSE F[f[n - 1]]) = (IF n = 0 THEN S ELSE Next1(f[n - 1]))
        <3>1. n # 0 => f[n - 1] \in D
            BY <1>3
        <3> HIDE DEF Next1, D
        <3> QED
            BY <3>1
    <2> HIDE DEF F, Next1
    <2> QED
        BY <1>2, <2>1
<1>5. Levels(S, T) = CHOOSE x : IsLevel(x)
    BY DEF Levels
<1>6. PICK L : L = Levels(S, T) /\ IsLevel(L)
    BY <1>4, <1>5
<1> HIDE DEF Next1
<1>7. \A n \in Nat : L[n] = IF n = 0 THEN S ELSE Next1(L[n - 1])
    BY <1>6
<1>8. ASSUME NEW n \in Nat PROVE L[n + 1] = Next1(L[n])
    <2>1. n + 1 \in Nat /\ n + 1 # 0 /\ (n + 1) - 1 = n
        OBVIOUS
    <2> QED
        BY <1>7, <2>1
<1>9. \A n \in Nat : L[n] \in D
    <2> DEFINE B == {n \in Nat : L[n] \notin D}
    <2> SUFFICES ASSUME B # {} PROVE FALSE
        OBVIOUS
    <2>1. PICK n \in B : \A k \in B : n <= k
        BY LeastNat
    <2>2. n # 0
        BY <1>1, <1>7, <2>1
    <2>3. n - 1 \in Nat /\ L[n - 1] \in D
        BY <2>1, <2>2
    <2>4. L[n] \in D
        BY <1>7, <2>1, <2>2, <2>3 DEF Next1
    <2> QED
        BY <2>1, <2>4
<1>10. L[0] = S
    BY <1>7
<1>11. \A n \in Nat : L[n + 1] = L[n] \cup {p \in T : \E s \in L[n] : p - s \in L[n]}
    BY <1>8 DEF Next1
<1> HIDE DEF F, IsLevel
<1> QED
    BY <1>6, <1>9, <1>10, <1>11


LEMMA LevelsGrow ==
    ASSUME NEW S, NEW T, S \subseteq T, NEW m \in Nat, NEW n \in Nat, m <= n
    PROVE  Levels(S, T)[m] \subseteq Levels(S, T)[n]
<1> DEFINE B == {k \in Nat : m <= k /\ ~ Levels(S, T)[m] \subseteq Levels(S, T)[k]}
<1> SUFFICES ASSUME B # {} PROVE FALSE
    OBVIOUS
<1>1. PICK k \in B : \A j \in B : k <= j
    BY LeastNat
<1>2. k # m
    BY <1>1
<1>3. k - 1 \in Nat /\ m <= k - 1 /\ (k - 1) + 1 = k
    BY <1>1, <1>2
<1>4. k - 1 \notin B
    BY <1>1, <1>3
<1>5. Levels(S, T)[m] \subseteq Levels(S, T)[k - 1]
    BY <1>3, <1>4
<1>6. Levels(S, T)[k - 1] \subseteq Levels(S, T)[k]
    BY <1>3, LevelsAre
<1> QED
    BY <1>1, <1>5, <1>6

\* The node of a target whose parents, if it is a sum of two targets at all, are
\* the two of least depth.
LeastDepth(p) ==
    /\ nodes[p].depth <= depth
    /\ IsSource(nodes[p]) <=> p \in args.sources
    /\ IsSource(nodes[p]) => nodes[p].depth = 0
    /\ ~IsSource(nodes[p]) => /\ \A q \in pending : p < q
                              /\ \A s \in Candidates(p) : nodes[p].depth \in 0 .. PairDepth(p, s)
                              /\ Candidates(p) # {} =>
                                   /\ nodes[p].parents[1] \in Candidates(p)
                                   /\ nodes[p].depth = PairDepth(p, nodes[p].parents[1])

DepthInv ==
    /\ configured => target_powers = args.targets /\ pending = {}
    /\ depth \in Nat /\ args.sources \subseteq args.targets
    /\ phase = "configuring" \/ configured =>
         /\ pending \cap args.sources = {}
         /\ \A p \in args.targets \ pending : LeastDepth(p)

LEMMA MaxOfTwo ==
    ASSUME NEW a \in Nat, NEW b \in Nat
    PROVE  Max({a, b}) \in Nat /\ a <= Max({a, b}) /\ b <= Max({a, b}) /\ Max({a, b}) \in {a, b}
<1>1. \E x \in {a, b} : \A y \in {a, b} : x >= y
    OBVIOUS
<1>2. Max({a, b}) \in {a, b} /\ \A y \in {a, b} : Max({a, b}) >= y
    BY <1>1 DEF Max
<1> QED
    BY <1>2

\* The two powers of a pair are lower, and have nodes if no lower one is pending.
LEMMA PairsAreLower ==
    ASSUME DagInv, phase = "configuring", NEW p \in args.targets, \A q \in pending : p <= q,
           NEW s \in Candidates(p)
    PROVE  /\ s \in args.targets \ pending /\ p - s \in args.targets \ pending
           /\ s \in Nat \ {0} /\ p - s \in Nat \ {0} /\ s < p /\ p - s < p
           /\ s \in DOMAIN nodes /\ p - s \in DOMAIN nodes
           /\ nodes[s].depth \in 0 .. s - 1 /\ nodes[p - s].depth \in 0 .. p - s - 1
<1>1. p \in Nat /\ s \in Nat \ {0} /\ p - s \in Nat \ {0} /\ s < p /\ p - s < p
    BY DEF DagInv, Candidates
<1>2. \A q \in pending : q \in Nat
    BY DEF DagInv
<1>3. s \in args.targets \ pending /\ p - s \in args.targets \ pending
    BY <1>1, <1>2 DEF Candidates
<1>4. GoodNode(s, nodes[s]) /\ GoodNode(p - s, nodes[p - s])
    BY <1>3 DEF DagInv
<1> QED
    BY <1>1, <1>3, <1>4 DEF DagInv, GoodNode

\* What the depth of a pair is.
LEMMA PairDepthIs ==
    ASSUME NEW p, NEW s, nodes[s].depth \in Nat, nodes[p - s].depth \in Nat
    PROVE  /\ PairDepth(p, s) \in Nat
           /\ nodes[s].depth < PairDepth(p, s) /\ nodes[p - s].depth < PairDepth(p, s)
           /\ \/ PairDepth(p, s) = nodes[s].depth + 1
              \/ PairDepth(p, s) = nodes[p - s].depth + 1
<1> DEFINE a == nodes[s].depth
           b == nodes[p - s].depth
<1>1. a \in Nat /\ b \in Nat /\ PairDepth(p, s) = Max({a, b}) + 1
    BY DEF PairDepth
<1> HIDE DEF a, b
<1>2. PairDepth(p, s) \in Nat /\ a < PairDepth(p, s) /\ b < PairDepth(p, s)
      /\ (PairDepth(p, s) = a + 1 \/ PairDepth(p, s) = b + 1)
    BY <1>1, MaxOfTwo
<1> QED
    BY <1>2 DEF a, b

\* The search finds a pair of least depth.  When no pair needs less than p - 1,
\* the only one is p - 1 and 1, of which that is the depth.
LEMMA OptimalIsLeast ==
    ASSUME DagInv, phase = "configuring", NEW p \in pending, \A q \in pending : p <= q
    PROVE  /\ ~IsSource(Optimal(p))
           /\ \A s \in Candidates(p) : Optimal(p).depth \in 0 .. PairDepth(p, s)
           /\ Candidates(p) # {} =>
                /\ Optimal(p).parents[1] \in Candidates(p)
                /\ Optimal(p).depth = PairDepth(p, Optimal(p).parents[1])
<1> DEFINE good == {s \in Candidates(p) : PairDepth(p, s) < p - 1}
           D == {PairDepth(p, s) : s \in good}
           first == {s \in good : PairDepth(p, s) = Min(D)}
<1>1. p \in Nat /\ p > 1 /\ p \in args.targets
    BY DEF DagInv
<1>2. ASSUME NEW s \in Candidates(p)
      PROVE  /\ s \in Nat \ {0} /\ p - s \in Nat \ {0} /\ s < p /\ p - s \in args.targets
             /\ nodes[s].depth \in 0 .. s - 1 /\ nodes[p - s].depth \in 0 .. p - s - 1
             /\ PairDepth(p, s) \in Nat
             /\ PairDepth(p, s) = nodes[s].depth + 1 \/ PairDepth(p, s) = nodes[p - s].depth + 1
    BY <1>1, PairsAreLower, PairDepthIs
<1>3. CASE good = {}
    <2>1. Optimal(p) = [depth |-> p - 1, parents |-> <<p - 1, 1>>]
        BY <1>3 DEF Optimal
    <2>2. ASSUME NEW s \in Candidates(p)
          PROVE  p - 1 \in Candidates(p) /\ p - 1 <= PairDepth(p, s)
        <3>1. ~(PairDepth(p, s) < p - 1)
            BY <1>3
        <3>2. p - 1 <= PairDepth(p, s) /\ (s = 1 \/ s = p - 1)
            BY <1>1, <1>2, <3>1
        <3>3. s \in args.targets /\ p - s \in args.targets
            BY DEF Candidates
        <3>4. p - 1 \in args.targets /\ p - (p - 1) \in args.targets /\ p - 1 < p
            BY <1>1, <3>2, <3>3
        <3> QED
            BY <3>2, <3>4 DEF Candidates
    <2>3. ASSUME p - 1 \in Candidates(p) PROVE PairDepth(p, p - 1) = p - 1
        <3>1. PairDepth(p, p - 1) <= p - 1
            BY <1>1, <1>2, <2>3
        <3> QED
            BY <1>1, <1>2, <2>2, <2>3, <3>1
    <2>4. Optimal(p).depth = p - 1 /\ Optimal(p).parents[1] = p - 1
          /\ Optimal(p).parents = <<p - 1, 1>>
        BY <2>1
    <2>5. ~IsSource(Optimal(p))
        BY <1>1, <2>4 DEF IsSource
    <2>6. \A s \in Candidates(p) : p - 1 \in 0 .. PairDepth(p, s)
        BY <1>1, <1>2, <2>2
    <2> QED
        BY <2>2, <2>3, <2>4, <2>5, <2>6
<1>4. CASE good # {}
    <2>1. D \in SUBSET Nat /\ D # {} /\ \A k \in D : k < p - 1
        BY <1>2, <1>4
    <2>2. Min(D) \in D /\ Min(D) \in Nat /\ Min(D) < p - 1 /\ \A k \in D : Min(D) <= k
        BY <2>1, MinOfNats
    <2>3. first \in SUBSET Nat /\ first # {}
        BY <1>2, <2>2
    <2>4. Min(first) \in first
        BY <2>3, MinOfNats
    <2>5. Min(first) \in Candidates(p) /\ PairDepth(p, Min(first)) = Min(D)
        BY <2>4
    <2>6. ASSUME NEW s \in Candidates(p) PROVE Min(D) \in 0 .. PairDepth(p, s)
        <3>1. CASE s \in good
            BY <1>2, <2>2, <3>1
        <3>2. CASE s \notin good
            BY <1>1, <1>2, <2>2, <3>2
        <3> QED
            BY <3>1, <3>2
    <2>7. Optimal(p) = [depth |-> Min(D), parents |-> <<Min(first), p - Min(first)>>]
        BY <1>4 DEF Optimal
    <2>8. Min(first) # 0
        BY <1>2, <2>5
    <2> HIDE DEF good, D, first
    <2>9. Optimal(p).depth = Min(D) /\ Optimal(p).parents[1] = Min(first)
          /\ Optimal(p).parents # <<0, 0>>
        BY <2>7, <2>8
    <2> QED
        BY <2>5, <2>6, <2>9 DEF IsSource
<1> QED
    BY <1>3, <1>4

LEMMA DepthInit == Init => DepthInv
BY DEF Init, DepthInv

LEMMA DepthConfigure ==
    ASSUME DepthInv, NEW c \in Configs, Configure(c)
    PROVE  DepthInv'
<1>1. ~configured' /\ depth' = 0
    BY DEF Configure
<1>2. CASE Valid(c.sources, c.targets)
    <2>1. /\ args' = c /\ pending' = c.targets \ c.sources /\ c.sources \subseteq c.targets
          /\ \A p \in c.sources : nodes'[p] = Source
        BY <1>2 DEF Configure, Valid
    <2>2. ASSUME NEW p \in args'.targets \ pending' PROVE LeastDepth(p)'
        <3>1. p \in args'.sources /\ nodes'[p] = Source
            BY <2>1
        <3> QED
            BY <1>1, <3>1 DEF LeastDepth, Source, IsSource
    <2> QED
        BY <1>1, <2>1, <2>2 DEF DepthInv
<1>3. CASE ~Valid(c.sources, c.targets)
    BY <1>1, <1>3 DEF Configure, DepthInv
<1> QED
    BY <1>2, <1>3

LEMMA DepthAddNode ==
    ASSUME DagInv, DepthInv, AddNode
    PROVE  DepthInv'
<1> DEFINE m == Min(pending)
<1>1. pending \in SUBSET Nat /\ pending # {} /\ phase = "configuring"
    BY DEF DagInv, AddNode
<1>2. m \in pending /\ \A q \in pending : m <= q
    BY <1>1, MinOfNats
<1>3. PICK p \in pending : p = m /\ \A q \in pending : p <= q
    BY <1>2
<1>4. /\ nodes' = [q \in DOMAIN nodes \cup {p} |-> IF q = p THEN Optimal(p) ELSE nodes[q]]
      /\ depth' = Max({depth, Optimal(p).depth}) /\ pending' = pending \ {p}
      /\ phase' = phase /\ args' = args /\ configured' = configured /\ target_powers' = target_powers
    BY <1>3 DEF AddNode
<1> HIDE DEF m
<1>5. GoodNode(p, Optimal(p)) /\ p \in args.targets /\ p \in Nat
    BY <1>1, <1>3, OptimalIsGood DEF DagInv
<1>6. depth \in Nat /\ Optimal(p).depth \in Nat /\ ~configured /\ ~configured'
    BY <1>1, <1>4, <1>5 DEF DepthInv, DagInv, GoodNode
<1>7. depth' \in Nat /\ depth <= depth' /\ Optimal(p).depth <= depth'
    BY <1>4, <1>6, MaxOfTwo
\* A pair lies below the pending powers, where no node changes.
<1>8. ASSUME NEW r \in args.targets, \A q \in pending : r <= q, NEW s \in Candidates(r)
      PROVE  PairDepth(r, s)' = PairDepth(r, s)
    <2>1. s \in DOMAIN nodes /\ r - s \in DOMAIN nodes /\ s # p /\ r - s # p
        BY <1>1, <1>3, <1>8, PairsAreLower
    <2>2. nodes'[s] = nodes[s] /\ nodes'[r - s] = nodes[r - s]
        BY <1>4, <2>1
    <2> QED
        BY <2>2 DEF PairDepth
<1>9. \A r : Candidates(r)' = Candidates(r)
    BY <1>4 DEF Candidates
<1>10. LeastDepth(p)'
    <2>1. nodes'[p] = Optimal(p) /\ p \notin args.sources
        BY <1>1, <1>3, <1>4 DEF DepthInv
    <2>2. /\ ~IsSource(Optimal(p))
          /\ \A s \in Candidates(p) : Optimal(p).depth \in 0 .. PairDepth(p, s)
          /\ Candidates(p) # {} =>
                /\ Optimal(p).parents[1] \in Candidates(p)
                /\ Optimal(p).depth = PairDepth(p, Optimal(p).parents[1])
        BY <1>1, <1>3, OptimalIsLeast
    <2>3. \A q \in pending' : p < q
        BY <1>1, <1>3, <1>4
    <2>4. \A s \in Candidates(p) : PairDepth(p, s)' = PairDepth(p, s)
        BY <1>3, <1>5, <1>8
    <2>5. PICK n : n = nodes'[p] /\ n = Optimal(p)
        BY <2>1
    <2>6. /\ n.depth <= depth' /\ ~IsSource(n)
          /\ \A s \in Candidates(p)' : n.depth \in 0 .. PairDepth(p, s)'
          /\ Candidates(p)' # {} =>
                /\ n.parents[1] \in Candidates(p)'
                /\ n.depth = PairDepth(p, n.parents[1])'
        BY <1>7, <1>9, <2>2, <2>4, <2>5
    <2> QED
        BY <1>4, <2>1, <2>3, <2>5, <2>6 DEF LeastDepth, IsSource
<1>11. ASSUME NEW r \in args.targets \ pending PROVE LeastDepth(r)'
    <2>1. LeastDepth(r) /\ r \in DOMAIN nodes /\ r # p
        BY <1>1, <1>3 DEF DepthInv, DagInv
    <2>2. nodes'[r] = nodes[r]
        BY <1>4, <2>1
    <2>3. GoodNode(r, nodes[r])
        BY <1>1 DEF DagInv
    <2>4. nodes[r].depth \in Nat /\ nodes[r].depth <= depth'
        BY <1>6, <1>7, <2>1, <2>3 DEF LeastDepth, GoodNode
    <2>5. CASE IsSource(nodes[r])
        BY <1>4, <2>1, <2>2, <2>4, <2>5 DEF LeastDepth, IsSource
    <2>6. CASE ~IsSource(nodes[r])
        <3>1. \A q \in pending : r < q
            BY <2>1, <2>6 DEF LeastDepth
        <3>2. r \in Nat
            BY DEF DagInv
        <3>3. \A s \in Candidates(r) : PairDepth(r, s)' = PairDepth(r, s)
            BY <1>1, <1>8, <3>1, <3>2
        <3>4. /\ \A s \in Candidates(r) : nodes[r].depth \in 0 .. PairDepth(r, s)
              /\ Candidates(r) # {} =>
                   /\ nodes[r].parents[1] \in Candidates(r)
                   /\ nodes[r].depth = PairDepth(r, nodes[r].parents[1])
              /\ r \notin args.sources
            BY <2>1, <2>6 DEF LeastDepth
        <3>5. PICK n : n = nodes'[r] /\ n = nodes[r]
            BY <2>2
        <3>6. /\ \A s \in Candidates(r)' : n.depth \in 0 .. PairDepth(r, s)'
              /\ Candidates(r)' # {} =>
                   /\ n.parents[1] \in Candidates(r)'
                   /\ n.depth = PairDepth(r, n.parents[1])'
            BY <1>9, <3>3, <3>4, <3>5
        <3>7. \A q \in pending' : r < q
            BY <1>4, <3>1
        <3> QED
            BY <1>4, <2>4, <2>6, <3>4, <3>5, <3>6, <3>7 DEF LeastDepth, IsSource
    <2> QED
        BY <2>5, <2>6
<1>12. \A r \in args'.targets \ pending' : LeastDepth(r)'
    BY <1>4, <1>10, <1>11
<1> QED
    BY <1>4, <1>6, <1>7, <1>12 DEF DepthInv

LEMMA DepthNext == ASSUME DagInv, DepthInv, [Next]_vars PROVE DepthInv'
<1>1. CASE ConfigureEnd
    BY <1>1 DEF ConfigureEnd, DepthInv, LeastDepth, Candidates, PairDepth, IsSource
<1>2. CASE UNCHANGED dagVars /\ (phase' = "configuring" => phase = "configuring")
    BY <1>2 DEF dagVars, DepthInv, LeastDepth, Candidates, PairDepth, IsSource
<1>3. ASSUME NEW w \in Workers, Work(w) PROVE UNCHANGED dagVars /\ phase' = phase
    BY <1>3 DEF Work, Start, Leave, Skip, Grab, NoParent, Proceed, NotReady, PutBack, Func,
           FuncThrows, Mark
<1>4. Launch \/ Join \/ Quiet \/ UNCHANGED vars =>
        UNCHANGED dagVars /\ (phase' = "configuring" => phase = "configuring")
    BY DEF Launch, Join, Quiet, vars
<1> QED
    BY <1>1, <1>2, <1>3, <1>4, DepthConfigure, DepthAddNode DEF Next


\* The same when the DAG is complete, of the node of a target that is no source.
LEMMA ParentsAreLower ==
    ASSUME DagInv, DepthInv, configured, NEW p \in target_powers, p \notin args.sources,
           NEW s \in target_powers, p - s \in target_powers
    PROVE  LET t == nodes[p].parents[1] IN
           /\ s < p /\ t \in target_powers /\ p - t \in target_powers /\ t < p /\ p - t < p
           /\ nodes[p].parents[2] = p - t
           /\ nodes[p].depth \in Nat /\ nodes[s].depth \in Nat /\ nodes[p - s].depth \in Nat
           /\ nodes[t].depth \in Nat /\ nodes[p - t].depth \in Nat
           /\ nodes[t].depth < nodes[p].depth /\ nodes[p - t].depth < nodes[p].depth
           /\ nodes[p].depth <= nodes[s].depth + 1 \/ nodes[p].depth <= nodes[p - s].depth + 1
<1> DEFINE t == nodes[p].parents[1]
<1>1. target_powers = args.targets /\ pending = {} /\ target_powers \in SUBSET (Nat \ {0})
    BY DEF DagInv, DepthInv
<1>2. LeastDepth(p)
    BY <1>1 DEF DepthInv
<1>3. \A q \in target_powers : GoodNode(q, nodes[q])
    BY DEF DagInv
<1>4. \A q \in target_powers : q \in Nat \ {0} /\ nodes[q].depth \in Nat
    BY <1>1, <1>3 DEF GoodNode
<1>5. s < p /\ s \in Candidates(p)
    BY <1>1, <1>4 DEF Candidates
<1>6. ~IsSource(nodes[p]) /\ t \in Candidates(p) /\ nodes[p].depth = PairDepth(p, t)
      /\ nodes[p].depth \in 0 .. PairDepth(p, s)
    BY <1>2, <1>5 DEF LeastDepth
<1>7. t \in target_powers /\ p - t \in target_powers
    BY <1>1, <1>6 DEF Candidates
<1>8. t < p /\ p - t < p /\ t \in Nat
    BY <1>4, <1>7
<1>9. nodes[p].parents[2] = p - t
    <2>1. t + nodes[p].parents[2] = p /\ nodes[p].parents[2] \in Nat
        BY <1>3, <1>6 DEF GoodNode
    <2> QED
        BY <1>4, <1>8, <2>1
<1>10. /\ nodes[t].depth < PairDepth(p, t) /\ nodes[p - t].depth < PairDepth(p, t)
    BY <1>4, <1>7, PairDepthIs
<1>11. /\ PairDepth(p, s) \in Nat
       /\ PairDepth(p, s) = nodes[s].depth + 1 \/ PairDepth(p, s) = nodes[p - s].depth + 1
    BY <1>4, PairDepthIs
<1> HIDE DEF t
<1>12. nodes[p].depth <= nodes[s].depth + 1 \/ nodes[p].depth <= nodes[p - s].depth + 1
    BY <1>4, <1>6, <1>11
<1> QED
    BY <1>4, <1>5, <1>6, <1>7, <1>8, <1>9, <1>10, <1>12 DEF t

LEMMA LevelOfDag ==
    ASSUME DagInv, DepthInv, configured
    PROVE  LET levels == Levels(args.sources, target_powers)
           IN  /\ \A p \in target_powers : Computable(p) => p \in levels[nodes[p].depth]
               /\ \A n \in Nat : \A p \in levels[n] : nodes[p].depth <= n
<1> DEFINE L == Levels(args.sources, target_powers)
<1>1. target_powers \in SUBSET (Nat \ {0}) /\ args.sources \subseteq target_powers
    BY DEF DagInv, DepthInv
<1>2. \A p \in target_powers : nodes[p].depth \in Nat
    BY DEF DagInv, GoodNode
<1>3. \A p \in args.sources : nodes[p].depth = 0
    BY <1>1 DEF DepthInv, LeastDepth
<1>4. /\ L[0] = args.sources /\ \A n \in Nat : L[n] \subseteq target_powers
      /\ \A n \in Nat : L[n + 1] = L[n] \cup {p \in target_powers : \E s \in L[n] : p - s \in L[n]}
    BY <1>1, LevelsAre
<1>5. \A m, n \in Nat : m <= n => L[m] \subseteq L[n]
    BY <1>1, LevelsGrow
<1> HIDE DEF L
<1>6. ASSUME NEW p \in target_powers, Computable(p) PROVE p \in L[nodes[p].depth]
    <2> DEFINE B == {q \in target_powers : Computable(q) /\ q \notin L[nodes[q].depth]}
    <2> SUFFICES ASSUME B # {} PROVE FALSE
        BY <1>6
    <2>1. PICK q \in B : \A k \in B : q <= k
        BY <1>1, LeastNat
    <2>2. q \in target_powers /\ q \in Nat /\ Computable(q) /\ q \notin L[nodes[q].depth]
        BY <1>1, <2>1
    <2>3. q \notin args.sources
        BY <1>3, <1>4, <2>2
    <2>4. PICK s \in target_powers : q - s \in target_powers
        BY <2>2, <2>3 DEF Computable
    <2>5. PICK t \in target_powers, u \in target_powers :
             /\ t < q /\ u < q /\ t = q - u /\ u = q - t
             /\ nodes[q].depth \in Nat /\ nodes[t].depth \in Nat /\ nodes[u].depth \in Nat
             /\ nodes[t].depth < nodes[q].depth /\ nodes[u].depth < nodes[q].depth
        <3> DEFINE a == nodes[q].parents[1]
        <3>1. /\ a \in target_powers /\ q - a \in target_powers /\ a < q /\ q - a < q
              /\ nodes[q].depth \in Nat /\ nodes[a].depth \in Nat /\ nodes[q - a].depth \in Nat
              /\ nodes[a].depth < nodes[q].depth /\ nodes[q - a].depth < nodes[q].depth
            BY <2>2, <2>3, <2>4, ParentsAreLower
        <3> HIDE DEF a
        <3>2. a \in Nat /\ q \in Nat
            BY <1>1, <2>2, <3>1
        <3>3. q - (q - a) = a
            BY <3>2
        <3> QED
            BY <3>1, <3>3
    <2>6. ASSUME NEW k \in {t, u} PROVE k \in L[nodes[q].depth - 1]
        <3>1. k \in target_powers /\ k \in Nat /\ k < q
            BY <1>1, <2>5
        <3>2. Computable(k)
            BY <1>1, <2>2, <3>1 DEF Computable
        <3>3. k \in L[nodes[k].depth]
            BY <2>1, <2>2, <3>1, <3>2
        <3>4. nodes[k].depth \in Nat /\ nodes[q].depth - 1 \in Nat /\ nodes[k].depth <= nodes[q].depth - 1
            BY <2>5
        <3> QED
            BY <1>5, <3>3, <3>4
    <2>7. nodes[q].depth - 1 \in Nat /\ (nodes[q].depth - 1) + 1 = nodes[q].depth
        BY <2>5
    <2>8. t \in L[nodes[q].depth - 1] /\ q - t \in L[nodes[q].depth - 1]
        BY <2>5, <2>6
    <2> QED
        BY <1>4, <2>2, <2>7, <2>8
<1>7. ASSUME NEW n \in Nat, NEW p \in L[n] PROVE nodes[p].depth <= n
    <2> DEFINE B == {k \in Nat : \E q \in L[k] : ~(nodes[q].depth <= k)}
    <2> SUFFICES ASSUME B # {} PROVE FALSE
        BY <1>7
    <2>1. PICK k \in B : \A j \in B : k <= j
        BY LeastNat
    <2>2. PICK q \in L[k] : ~(nodes[q].depth <= k)
        BY <2>1
    <2>3. k \in Nat /\ q \in target_powers /\ nodes[q].depth \in Nat /\ nodes[q].depth > k
        BY <1>2, <1>4, <2>1, <2>2
    <2>4. q \notin args.sources /\ k # 0
        BY <1>3, <1>4, <2>2, <2>3
    <2>5. k - 1 \in Nat /\ (k - 1) + 1 = k /\ k - 1 < k
        BY <2>3, <2>4
    <2>6. \A r \in L[k - 1] : nodes[r].depth <= k - 1
        BY <2>1, <2>3, <2>5
    <2>7. q \notin L[k - 1]
        BY <2>3, <2>5, <2>6
    <2>8. PICK s \in L[k - 1] : q - s \in L[k - 1]
        BY <1>4, <2>2, <2>5, <2>7
    <2>9. s \in target_powers /\ q - s \in target_powers
        BY <1>4, <2>5, <2>8
    <2>10. nodes[s].depth <= k - 1 /\ nodes[q - s].depth <= k - 1
           /\ nodes[s].depth \in Nat /\ nodes[q - s].depth \in Nat
        BY <1>2, <2>6, <2>8, <2>9
    <2>11. nodes[q].depth <= nodes[s].depth + 1 \/ nodes[q].depth <= nodes[q - s].depth + 1
        BY <2>3, <2>4, <2>9, ParentsAreLower
    <2> QED
        BY <2>3, <2>10, <2>11
<1> QED
    BY <1>6, <1>7 DEF L

\* "All powers of a given query ciphertext in a depth-optimal manner"
\* (powers.h:26-27): configure gives every target power that can be computed the
\* least number of levels of products that reach it from the sources, and parents
\* that are reached earlier.
THEOREM DagIsDepthOptimal == Spec => []DagIsOptimal
<1>1. ASSUME DagInv, DepthInv PROVE DagIsOptimal
    <2> DEFINE L == Levels(args.sources, target_powers)
    <2> SUFFICES ASSUME configured, NEW p \in target_powers
                 PROVE  LET d == nodes[p].depth
                            s == nodes[p].parents
                        IN  /\ d <= depth
                            /\ Computable(p) => p \in L[d]
                            /\ p \in args.sources => d = 0
                            /\ p \notin args.sources /\ Computable(p) =>
                                 /\ p \notin L[d - 1]
                                 /\ {s[1], s[2]} \subseteq L[d - 1] /\ s[1] + s[2] = p
        BY DEF DagIsOptimal
    <2>1. LeastDepth(p) /\ target_powers \in SUBSET (Nat \ {0})
        BY <1>1 DEF DagInv, DepthInv
    <2>2. /\ \A q \in target_powers : Computable(q) => q \in L[nodes[q].depth]
          /\ \A n \in Nat : \A q \in L[n] : nodes[q].depth <= n
        BY <1>1, LevelOfDag
    <2>3. args.sources \subseteq target_powers
        BY <1>1 DEF DepthInv
    <2> HIDE DEF L
    <2>4. ASSUME p \notin args.sources, Computable(p)
          PROVE  /\ p \notin L[nodes[p].depth - 1]
                 /\ nodes[p].parents[1] \in L[nodes[p].depth - 1]
                 /\ nodes[p].parents[2] \in L[nodes[p].depth - 1]
                 /\ nodes[p].parents[1] + nodes[p].parents[2] = p
        <3> DEFINE t == nodes[p].parents[1]
        <3>1. p \in Nat
            BY <2>1
        <3>2. PICK r \in target_powers : p - r \in target_powers
            BY <2>4, <3>1 DEF Computable
        <3>3. /\ t \in target_powers /\ p - t \in target_powers /\ t < p /\ p - t < p
              /\ nodes[p].parents[2] = p - t /\ nodes[p].depth \in Nat
              /\ nodes[t].depth \in Nat /\ nodes[p - t].depth \in Nat
              /\ nodes[t].depth < nodes[p].depth /\ nodes[p - t].depth < nodes[p].depth
            BY <1>1, <2>4, <3>2, ParentsAreLower
        <3> HIDE DEF t
        <3>4. ASSUME NEW k \in {t, p - t} PROVE k \in L[nodes[p].depth - 1]
            <4>1. k \in target_powers /\ k \in Nat /\ k < p /\ nodes[k].depth \in Nat
                  /\ nodes[k].depth <= nodes[p].depth - 1 /\ nodes[p].depth - 1 \in Nat
                BY <2>1, <3>3
            <4>2. Computable(k)
                BY <2>1, <2>4, <3>1, <4>1 DEF Computable
            <4>3. k \in L[nodes[k].depth]
                BY <2>2, <4>1, <4>2
            <4>4. L[nodes[k].depth] \subseteq L[nodes[p].depth - 1]
                BY <2>3, <4>1, LevelsGrow DEF L
            <4> QED
                BY <4>3, <4>4
        <3>5. p \notin L[nodes[p].depth - 1]
            BY <2>2, <3>3
        <3>6. t \in Nat /\ t + (p - t) = p
            BY <2>1, <3>1, <3>3
        <3>7. t \in L[nodes[p].depth - 1] /\ p - t \in L[nodes[p].depth - 1]
            BY <3>4
        <3> QED
            BY <3>3, <3>5, <3>6, <3>7 DEF t
    <2>5. nodes[p].depth <= depth /\ (p \in args.sources => nodes[p].depth = 0)
        BY <2>1 DEF LeastDepth
    <2> QED
        BY <2>2, <2>4, <2>5
<1>2. Init => PowersInv /\ DepthInv
    BY InitInv, DepthInit
<1>3. PowersInv /\ DepthInv /\ [Next]_vars => PowersInv' /\ DepthInv'
    BY NextInv, DepthNext DEF PowersInv
<1>4. PowersInv => DagInv
    BY DEF PowersInv
<1> QED
    BY <1>1, <1>2, <1>3, <1>4, PTL DEF Spec
=============================================================================
