------------------------------ MODULE PowersDag ------------------------------
(***************************************************************************)
(* The DAG by which the sender computes the powers of a query ciphertext   *)
(* (common/apsi/powers.cpp, powers.h) and its use in                       *)
(* Sender::ComputePowers: configure() writes every target power as a sum   *)
(* of two lower ones, and parallel_apply() has worker tasks compute the    *)
(* products, each waiting for the parents of its node.                     *)
(*                                                                         *)
(* A ciphertext is the exponent of the query it holds; 0 is the dummy that *)
(* stands where nothing has been computed yet.                             *)
(***************************************************************************)
EXTENDS Integers, FiniteSets, FiniteSetsExt

CONSTANTS NumTasks,       \* GetThreadCount(): the worker tasks
          PoolThreads,    \* the threads of the pool they run on
          Configs,        \* bound: what configure is called with
          MaxConfigures,  \* bound: how often it is called
          Throwing        \* the powers whose product may throw

Workers == 1 .. NumTasks

ASSUME PowersDagAssumption ==
    /\ NumTasks \in Nat \ {0} /\ PoolThreads \in Nat \ {0} /\ MaxConfigures \in Nat
    /\ \A c \in Configs : /\ c.sources \in SUBSET Nat /\ c.targets \in SUBSET Nat
                          /\ IsFiniteSet(c.sources)

VARIABLES
    nodes,          \* nodes_: power -> [depth, parents], <<0, 0>> for a source
    configured, target_powers, depth, source_count,
    args,           \* the arguments of configure
    pending,        \* the target powers its loop has still to come to
    configures,     \* how often configure has been called
    phase,          \* "idle", "configuring", "applying", "returned" or "threw"
    node_states,    \* power -> "Uncomputed", "Computing" or "Computed"
    powers,         \* power -> the ciphertext stored for it
    power_idx,      \* worker -> the power it looks at
    wpc             \* worker -> where it is

dagVars   == <<nodes, configured, target_powers, depth, source_count, args, pending, configures>>
applyVars == <<node_states, powers, power_idx, wpc>>
vars == <<dagVars, phase, applyVars>>

Source == [depth |-> 0, parents |-> <<0, 0>>]
IsSource(n) == n.parents = <<0, 0>>

Init ==
    /\ nodes = [p \in {} |-> Source]
    /\ configured = FALSE /\ target_powers = {} /\ depth = 0 /\ source_count = 0
    /\ args = [sources |-> {}, targets |-> {}] /\ pending = {} /\ configures = 0
    /\ phase = "idle"
    /\ node_states = [p \in {} |-> "Uncomputed"]
    /\ powers = [p \in {} |-> 0]
    /\ power_idx = [w \in Workers |-> 0]
    /\ wpc = [w \in Workers |-> "left"]
-----------------------------------------------------------------------------
(***************************************************************************)
(* configure                                                               *)
(***************************************************************************)
Valid(sources, targets) ==
    /\ 0 \notin sources /\ 1 \in sources
    /\ 0 \notin targets /\ 1 \in targets
    /\ sources \subseteq targets

\* reset() forgets everything but nodes_; the sources are written into it.
Configure(c) ==
    /\ phase \in {"idle", "returned", "threw"} /\ configures < MaxConfigures
    /\ configures' = configures + 1
    /\ configured' = FALSE /\ target_powers' = {} /\ depth' = 0 /\ source_count' = 0
    /\ IF Valid(c.sources, c.targets)
       THEN /\ phase' = "configuring"
            /\ args' = c
            /\ pending' = c.targets \ c.sources
            /\ nodes' = [p \in DOMAIN nodes \cup c.sources |->
                           IF p \in c.sources THEN Source ELSE nodes[p]]
       ELSE phase' = "idle" /\ UNCHANGED <<args, pending, nodes>>
    /\ UNCHANGED applyVars

\* The first parents a power may have: the second is determined.
Candidates(p) == {s \in args.targets : s < p /\ p - s \in args.targets}

\* Bug variant: the depth is counted along the first parent.
Bug_FirstParentDepth(p, s) == nodes[s].depth + 1

\* The depth of power p with the parents s and p - s
PairDepth(p, s) == Max({nodes[s].depth, nodes[p - s].depth}) + 1

\* Bug variant: the depth that has to be beaten starts one too high.
Bug_OptimalFromPower(p) ==
    LET good == {s \in Candidates(p) : PairDepth(p, s) < p}
        best == Min({PairDepth(p, s) : s \in good})
        s1   == Min({s \in good : PairDepth(p, s) = best})
    IN  IF good = {} THEN [depth |-> p, parents |-> <<p - 1, 1>>]
        ELSE [depth |-> best, parents |-> <<s1, p - s1>>]

\* The first of the pairs of least depth, if there is one that needs less
\* than p - 1; else p - 1 and 1.
Optimal(p) ==
    LET good == {s \in Candidates(p) : PairDepth(p, s) < p - 1}
        best == Min({PairDepth(p, s) : s \in good})
        s1   == Min({s \in good : PairDepth(p, s) = best})
    IN  IF good = {} THEN [depth |-> p - 1, parents |-> <<p - 1, 1>>]
        ELSE [depth |-> best, parents |-> <<s1, p - s1>>]

\* One turn of the loop over the target powers, in increasing order
AddNode ==
    LET p == Min(pending)
        n == Optimal(p)
    IN
    /\ phase = "configuring" /\ pending # {}
    /\ nodes' = [q \in DOMAIN nodes \cup {p} |-> IF q = p THEN n ELSE nodes[q]]
    /\ depth' = Max({depth, n.depth})
    /\ pending' = pending \ {p}
    /\ UNCHANGED <<configured, target_powers, source_count, args, configures, phase, applyVars>>

ConfigureEnd ==
    /\ phase = "configuring" /\ pending = {}
    /\ phase' = "idle"
    /\ configured' = TRUE /\ target_powers' = args.targets
    /\ source_count' = Cardinality(args.sources)
    /\ UNCHANGED <<nodes, depth, args, pending, configures, applyVars>>
-----------------------------------------------------------------------------
(***************************************************************************)
(* parallel_apply, with the function of ComputePowers.  The query holds    *)
(* the ciphertexts of the sources.  Without configure it throws at once.   *)
(***************************************************************************)
Launch ==
    /\ phase = "idle" /\ configured
    /\ phase' = "applying"
    /\ node_states' = [p \in target_powers |-> "Uncomputed"]
    /\ powers' = [p \in target_powers |-> IF IsSource(nodes[p]) THEN p ELSE 0]
    /\ power_idx' = [w \in Workers |-> Min(target_powers)]
    /\ wpc' = [w \in Workers |-> "queued"]
    /\ UNCHANGED dagVars

At(w, l) == phase = "applying" /\ wpc[w] = l
Goto(w, l) == wpc' = [wpc EXCEPT ![w] = l]

\* Bug variant: the index is not taken modulo the number of powers.
Bug_NoWrap(p) ==
    LET higher == {q \in target_powers : q > p}
    IN  IF higher = {} THEN p ELSE Min(higher)

\* power_idx + 1, modulo the number of powers
After(p) ==
    LET higher == {q \in target_powers : q > p}
    IN  Min(IF higher = {} THEN target_powers ELSE higher)

MoveOn(w) == power_idx' = [power_idx EXCEPT ![w] = After(@)]

\* A thread of the pool takes up the task.
Start(w) ==
    /\ At(w, "queued")
    /\ Cardinality({v \in Workers : wpc[v] \notin {"queued", "left", "threw"}}) < PoolThreads
    /\ Goto(w, "look")
    /\ UNCHANGED <<dagVars, phase, node_states, powers, power_idx>>

AllComputed == \A p \in target_powers : node_states[p] = "Computed"

Leave(w) ==
    /\ At(w, "look") /\ AllComputed
    /\ Goto(w, "left")
    /\ UNCHANGED <<dagVars, phase, node_states, powers, power_idx>>

\* The exchange fails: the node is done or another worker has it.
Skip(w) ==
    /\ At(w, "look") /\ ~AllComputed /\ node_states[power_idx[w]] # "Uncomputed"
    /\ MoveOn(w)
    /\ UNCHANGED <<dagVars, phase, node_states, powers, wpc>>

\* Bug variant: a node that another worker has is taken all the same.
Bug_Grab(w) ==
    /\ At(w, "look") /\ node_states[power_idx[w]] # "Computed"
    /\ node_states' = [node_states EXCEPT ![power_idx[w]] = "Computing"]
    /\ Goto(w, IF IsSource(nodes[power_idx[w]]) THEN "func" ELSE "parents")
    /\ UNCHANGED <<dagVars, phase, powers, power_idx>>

\* The exchange of Uncomputed for Computing; a source needs no parents.
Grab(w) ==
    /\ At(w, "look") /\ node_states[power_idx[w]] = "Uncomputed"
    /\ node_states' = [node_states EXCEPT ![power_idx[w]] = "Computing"]
    /\ Goto(w, IF IsSource(nodes[power_idx[w]]) THEN "func" ELSE "parents")
    /\ UNCHANGED <<dagVars, phase, powers, power_idx>>

Parents(w) == {nodes[power_idx[w]].parents[1], nodes[power_idx[w]].parents[2]}

\* A parent that is no target: the worker throws, with its node Computing.
NoParent(w) ==
    /\ At(w, "parents") /\ ~ Parents(w) \subseteq target_powers
    /\ Goto(w, "threw")
    /\ UNCHANGED <<dagVars, phase, node_states, powers, power_idx>>

\* Bug variant: one parent is enough.
Bug_OneParentReady(w) == \E p \in Parents(w) : node_states[p] = "Computed"

\* The states of the parents, read one after the other; Computed is final, so
\* that this is as if they were read at once.
ParentsReady(w) == \A p \in Parents(w) : node_states[p] = "Computed"

Proceed(w) ==
    /\ At(w, "parents") /\ Parents(w) \subseteq target_powers /\ ParentsReady(w)
    /\ Goto(w, "func")
    /\ UNCHANGED <<dagVars, phase, node_states, powers, power_idx>>

NotReady(w) ==
    /\ At(w, "parents") /\ Parents(w) \subseteq target_powers /\ ~ParentsReady(w)
    /\ Goto(w, "putback")
    /\ UNCHANGED <<dagVars, phase, node_states, powers, power_idx>>

\* Bug variant: a node whose parents are missing is taken for done.
Bug_PutBackDone(w) ==
    /\ At(w, "putback")
    /\ node_states' = [node_states EXCEPT ![power_idx[w]] = "Computed"]
    /\ MoveOn(w)
    /\ Goto(w, "look")
    /\ UNCHANGED <<dagVars, phase, powers>>

PutBack(w) ==
    /\ At(w, "putback")
    /\ node_states' = [node_states EXCEPT ![power_idx[w]] = "Uncomputed"]
    /\ MoveOn(w)
    /\ Goto(w, "look")
    /\ UNCHANGED <<dagVars, phase, powers>>

\* The function: nothing for a source, else the product of the parents.
Func(w) ==
    LET p == power_idx[w]
        par == nodes[p].parents
    IN
    /\ At(w, "func")
    /\ powers' = IF IsSource(nodes[p]) THEN powers
                 ELSE [powers EXCEPT ![p] = powers[par[1]] + powers[par[2]]]
    /\ Goto(w, "mark")
    /\ UNCHANGED <<dagVars, phase, node_states, power_idx>>

\* The evaluator throws; the node stays Computing.
FuncThrows(w) ==
    /\ At(w, "func") /\ power_idx[w] \in Throwing /\ ~IsSource(nodes[power_idx[w]])
    /\ Goto(w, "threw")
    /\ UNCHANGED <<dagVars, phase, node_states, powers, power_idx>>

Mark(w) ==
    /\ At(w, "mark")
    /\ node_states' = [node_states EXCEPT ![power_idx[w]] = "Computed"]
    /\ MoveOn(w)
    /\ Goto(w, "look")
    /\ UNCHANGED <<dagVars, phase, powers>>

\* The futures are waited for in order; the first exception leaves
\* parallel_apply.  What tasks still running do with its freed variables is
\* undefined: nothing more is said of them.
Join ==
    /\ phase = "applying"
    /\ \/ /\ \A w \in Workers : wpc[w] = "left"
          /\ phase' = "returned"
       \/ /\ \E w \in Workers : wpc[w] = "threw" /\ \A v \in 1 .. w - 1 : wpc[v] = "left"
          /\ phase' = "threw"
    /\ UNCHANGED <<dagVars, applyVars>>

Work(w) ==
    \/ Start(w) \/ Leave(w) \/ Skip(w) \/ Grab(w) \/ NoParent(w) \/ Proceed(w)
    \/ NotReady(w) \/ PutBack(w) \/ Func(w) \/ FuncThrows(w) \/ Mark(w)

\* The caller asks for nothing more.
Quiet == phase \in {"idle", "returned", "threw"} /\ UNCHANGED vars

Next ==
    \/ \E c \in Configs : Configure(c)
    \/ AddNode \/ ConfigureEnd \/ Launch
    \/ \E w \in Workers : Work(w)
    \/ Join
    \/ Quiet

Spec == Init /\ [][Next]_vars

\* The threads of the pool and the caller keep running.
FairSpec == Spec /\ WF_vars(Join) /\ \A w \in Workers : WF_vars(Work(w))
-----------------------------------------------------------------------------
\* The types of the variables (members of PowersDag, powers.h:286-294, and the
\* local variables of parallel_apply).
TypeOK ==
    /\ DOMAIN nodes \subseteq Nat /\ target_powers \subseteq DOMAIN nodes
    /\ \A p \in DOMAIN nodes : nodes[p].depth \in 0 .. p - 1 /\ nodes[p].parents \in Nat \X Nat
    /\ pending \subseteq args.targets /\ args.sources \subseteq args.targets
    /\ configured \in BOOLEAN /\ depth \in Nat /\ source_count \in Nat
    /\ phase \in {"idle", "configuring", "applying", "returned", "threw"}
    /\ node_states \in [DOMAIN powers -> {"Uncomputed", "Computing", "Computed"}]
    /\ \A p \in DOMAIN powers : powers[p] \in Nat
    /\ power_idx \in [Workers -> Nat]
    /\ wpc \in [Workers -> {"queued", "look", "parents", "putback", "func", "mark", "left", "threw"}]

\* level -> what so many levels of products can reach from a set of sources.
Levels(sources, targets) ==
    LET Products(r)      == r \cup {p \in targets : \E s \in r : p - s \in r}
        level[n \in Nat] == IF n = 0 THEN sources ELSE Products(level[n - 1])
    IN  level

\* The powers p that can be computed, and with them all that p may be given for
\* parents: every target up to p is a source or a sum of two targets.
Computable(p) ==
    \A q \in target_powers \ args.sources :
        q <= p => \E s \in target_powers : q - s \in target_powers

\* "All powers of a given query ciphertext in a depth-optimal manner"
\* (powers.h:26-27): the depth of a node is the least number of levels of
\* products that reach its power from the sources, and its parents are targets
\* reached earlier.  A target that cannot be computed gets a node all the same,
\* and higher ones may then be given it for a parent.
DagIsOptimal ==
    configured =>
        LET levels == Levels(args.sources, target_powers)
        IN  \A p \in target_powers :
              LET d == nodes[p].depth
                  s == nodes[p].parents
              IN  /\ d <= depth
                  /\ Computable(p) => p \in levels[d]
                  /\ p \in args.sources => d = 0
                  /\ p \notin args.sources /\ Computable(p) =>
                       /\ p \notin levels[d - 1]
                       /\ {s[1], s[2]} \subseteq levels[d - 1] /\ s[1] + s[2] = p

\* A worker that multiplies works on its own node, and nobody writes the
\* ciphertexts it reads: they are unprotected (sender.cpp:256-276).
NoDataRace ==
    phase = "applying" =>
        \A v, w \in Workers : v # w /\ wpc[v] = "func" /\ wpc[w] = "func" =>
            power_idx[v] # power_idx[w] /\ power_idx[v] \notin Parents(w)

\* Every node that is marked Computed holds the power of the query it stands
\* for, whatever the order in which the workers got there.
PowersAreRight ==
    phase = "applying" =>
        \A p \in target_powers : node_states[p] = "Computed" => powers[p] = p

\* When parallel_apply returns, all powers have been computed.
ReturnsAllPowers ==
    [][phase = "applying" /\ phase' = "returned" => \A p \in target_powers : powers[p] = p]_vars

\* parallel_apply ends unless the function throws: the workers that spin and
\* take nodes from one another do not keep the last node from being computed.
ApplyEndsUnlessThrown ==
    phase = "applying" ~> phase # "applying" \/ \E w \in Workers : wpc[w] = "threw"
=============================================================================
