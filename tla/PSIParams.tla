----------------------------- MODULE PSIParams -----------------------------
(***************************************************************************)
(* The parameters of the protocol (common/apsi/psi_params.cpp): what the   *)
(* constructor accepts, what it derives, and the two ways to load them.    *)
(* The sender reads a JSON document; the receiver gets what save() wrote.  *)
(*                                                                         *)
(* Parameters are a record: felts_per_item, table_size, max_items_per_bin, *)
(* hash_func_count, ps_low_degree, query_powers, and of the SEAL           *)
(* parameters the scheme, poly_modulus_degree and plain_modulus.           *)
(***************************************************************************)
EXTENDS Integers, FiniteSets, FiniteSetsExt

CONSTANTS
    ItemBitCountMin, ItemBitCountMax,   \* item_bit_count_min and _max: 80 and 128 in the code
    SerializationVersion                \* apsi_serialization_version

Rejected == [rejected |-> TRUE]    \* the constructor or Load throws

-----------------------------------------------------------------------------
\* SEAL (external): the primes it knows, and when a plain modulus supports
\* batching
IsPrime(n) == n > 1 /\ \A d \in 2 .. n - 1 : n % d # 0

UsingBatching(degree, modulus) == IsPrime(modulus) /\ modulus % (2 * degree) = 1

BitCount(n) == Min({b \in 1 .. n : n < 2^b})

\* PlainModulus::Batching (external): the largest prime of that size that
\* supports batching
BatchingModulus(degree, bits) ==
    Max({m \in 2^(bits - 1) .. 2^bits - 1 : UsingBatching(degree, m)} \cup {0})
-----------------------------------------------------------------------------
\* What initialize() derives.
ItemBitCountPerFelt(p) == BitCount(p.plain_modulus) - 1
ItemBitCount(p)        == ItemBitCountPerFelt(p) * p.felts_per_item
ItemsPerBundle(p)      == p.poly_modulus_degree \div p.felts_per_item
BinsPerBundle(p)       == ItemsPerBundle(p) * p.felts_per_item
BundleIndexCount(p)    == p.table_size \div ItemsPerBundle(p)

QueryPowersAcceptable(p) ==
    /\ 0 \notin p.query_powers /\ 1 \in p.query_powers
    /\ Cardinality(p.query_powers) <= p.max_items_per_bin
    /\ \A w \in p.query_powers :
          /\ w <= p.max_items_per_bin
          /\ w > p.ps_low_degree => w % (p.ps_low_degree + 1) = 0

\* The checks of initialize().
Acceptable(p) ==
    /\ p.table_size # 0 /\ p.max_items_per_bin # 0
    /\ p.hash_func_count \in 1 .. 8
    /\ p.felts_per_item \in 2 .. 32
    /\ p.ps_low_degree <= p.max_items_per_bin
    /\ QueryPowersAcceptable(p)
    /\ UsingBatching(p.poly_modulus_degree, p.plain_modulus)
    /\ ItemBitCount(p) \in ItemBitCountMin .. ItemBitCountMax
    /\ ItemsPerBundle(p) # 0
    /\ p.table_size % ItemsPerBundle(p) = 0

Construct(p) == IF Acceptable(p) THEN p ELSE Rejected
-----------------------------------------------------------------------------
(***************************************************************************)
(* Load(string).  A JSON document is a record with the same fields; a      *)
(* field it does not have is Missing, and the plain modulus is given by    *)
(* its value or by its size.                                               *)
(***************************************************************************)
Missing == -1

WellFormed(doc) ==
    /\ \A f \in DOMAIN doc \ {"plain_modulus", "plain_modulus_bits", "query_powers"} :
          doc[f] \in Nat
    /\ doc.query_powers \subseteq Nat
    /\ {doc.plain_modulus, doc.plain_modulus_bits} \cap {Missing} # {}
    /\ {doc.plain_modulus, doc.plain_modulus_bits} # {Missing}

\* The power 1 is put in whether the document lists it or not.
ParamsOf(doc) ==
    [felts_per_item |-> doc.felts_per_item, table_size |-> doc.table_size,
     max_items_per_bin |-> doc.max_items_per_bin, hash_func_count |-> doc.hash_func_count,
     ps_low_degree |-> doc.ps_low_degree, query_powers |-> {1} \cup doc.query_powers,
     scheme |-> "bfv", poly_modulus_degree |-> doc.poly_modulus_degree,
     plain_modulus |-> IF doc.plain_modulus # Missing THEN doc.plain_modulus
                       ELSE BatchingModulus(doc.poly_modulus_degree, doc.plain_modulus_bits)]

LoadJSON(doc) == IF WellFormed(doc) THEN Construct(ParamsOf(doc)) ELSE Rejected

\* save(): the buffer carries the version next to the parameters.
Save(p) == [version |-> SerializationVersion, params |-> p]

Load(buffer) ==
    IF \/ buffer.version # SerializationVersion
       \/ buffer.params.scheme # "bfv"
    THEN Rejected
    ELSE Construct(buffer.params)
-----------------------------------------------------------------------------
\* create_powers_set: the powers the polynomials are evaluated with.
CreatePowersSet(ps_low_degree, target_degree) ==
    IF ps_low_degree = 0 THEN 1 .. target_degree
    ELSE 1 .. ps_low_degree
         \cup {w \in 1 .. target_degree : w % (ps_low_degree + 1) = 0}

TargetPowers(p) == CreatePowersSet(p.ps_low_degree, p.max_items_per_bin)

\* reset_powers_dag, on either side: PowersDag::configure refuses sources
\* that are not among the targets.
DagConfigured(p) ==
    /\ 0 \notin p.query_powers /\ 1 \in p.query_powers
    /\ p.query_powers \subseteq TargetPowers(p)
=============================================================================
