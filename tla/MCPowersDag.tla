----------------------------- MODULE MCPowersDag -----------------------------
(***************************************************************************)
(* Small sets of powers: those create_powers_set makes for several degrees *)
(* with and without Paterson-Stockmeyer, with every choice of sources, and *)
(* some that configure must refuse or that leave a power without parents,  *)
(* below others that have some.                                            *)
(***************************************************************************)
EXTENDS PowersDag

Config(s, t) == [sources |-> s, targets |-> t]

\* create_powers_set(ps_low_degree, target_degree)
PowersSet(low, degree) ==
    IF low = 0 THEN 1 .. degree
    ELSE (1 .. low) \cup {p \in 1 .. degree : p % (low + 1) = 0}

AllSources(t) == {Config(s, t) : s \in {r \in SUBSET t : 1 \in r}}

MCConfigs ==
    AllSources(PowersSet(0, 4)) \cup AllSources(PowersSet(2, 6)) \cup AllSources(PowersSet(1, 6))
    \cup {Config({1}, PowersSet(0, 5)), Config({1, 3}, PowersSet(0, 7)),
          Config({2}, {1, 2}), Config({0, 1}, {0, 1}), Config({1, 5}, {1, 2, 3}),
          Config({1}, {1, 5}), Config({1, 4}, {1, 3, 4, 7})}
=============================================================================
