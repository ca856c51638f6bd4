---------------------------- MODULE Polynomials ----------------------------
(***************************************************************************)
(* The polynomials of a bin bundle and their evaluation on an encrypted    *)
(* query: common/apsi/util/interpolate.cpp, BatchedPlaintextPolyn in       *)
(* sender/apsi/bin_bundle.cpp, Sender::ComputePowers and                   *)
(* Sender::ProcessBinBundleCache.                                          *)
(*                                                                         *)
(* A polynomial is the sequence of its coefficients, constant first.  SEAL *)
(* is external: a plaintext is the value in every slot, its form           *)
(* (NTT or not) and, in NTT form, its level in the modulus chain; a        *)
(* ciphertext is the same together with whether the operations that made   *)
(* it were accepted.  An operation on operands whose forms or levels do    *)
(* not fit throws, which makes ok FALSE from there on.  Noise is not       *)
(* modelled.                                                               *)
(***************************************************************************)
EXTENDS Integers, Sequences, SequencesExt, FiniteSetsExt

CONSTANTS
    PlainModulus,   \* a prime
    Slots,          \* the slots of a batched plaintext
    FirstChainIdx   \* the level of fresh ciphertexts

ASSUME PolynomialsAssumption ==
    /\ PlainModulus \in Nat \ {0, 1} /\ FirstChainIdx \in Nat

Mod(n) == n % PlainModulus
Power(x, e) == FoldLeft(LAMBDA v, i : Mod(v * x), 1, [i \in 1 .. e |-> i])

\* exponentiate_uint_mod(a, p - 2): the inverse of a nonzero a
Inverted(a) == Power(a, PlainModulus - 2)
-----------------------------------------------------------------------------
\* polyn_mul_monic_monomial_inplace: polyn * (x - a)
MulMonic(polyn, a) ==
    LET coeff(i) == IF i \in DOMAIN polyn THEN polyn[i] ELSE 0
    IN  [i \in 1 .. Len(polyn) + 1 |-> Mod(coeff(i - 1) - a * coeff(i))]

PolynWithRoots(roots) == FoldLeft(MulMonic, <<1>>, roots)

\* newton_interpolate_polyn throws when a point is repeated, unless all the
\* values are zero.
AllZeros(values) == \A i \in DOMAIN values : values[i] = 0
Interpolable(points, values) == IsInjective(points) \/ AllZeros(values)

\* The divided differences dd[i, j] = [y_i, ..., y_(i+j)], then Horner's
\* method from the innermost term out.
NewtonInterpolate(points, values) ==
    LET n == Len(points)
        dd[i \in 1 .. n, j \in 0 .. n - 1] ==
            IF j = 0 THEN values[i]
            ELSE Mod((dd[i + 1, j - 1] - dd[i, j - 1]) * Inverted(Mod(points[i + j] - points[i])))
        plus(polyn, c) == [polyn EXCEPT ![1] = Mod(polyn[1] + c)]
    IN  IF AllZeros(values) THEN [i \in 1 .. Max({n, 1}) |-> 0]
        ELSE plus(FoldRight(LAMBDA i, polyn :
                    MulMonic(plus(polyn, dd[1, i]), points[i]), [i \in 1 .. n - 1 |-> i], <<0>>),
                  dd[1, 0])
-----------------------------------------------------------------------------
\* get_parms_id_for_chain_idx
Level(chain_idx) == Min({chain_idx, FirstChainIdx})

\* Bug variant: only the constant coefficient is left as it is.
Bug_InNttForm(i, ps_low_degree) == i # 0

\* The coefficients that are only added, or multiply a high power, are not
\* transformed.
InNttForm(i, ps_low_degree) ==
    IF ps_low_degree = 0 THEN i # 0 ELSE i % (ps_low_degree + 1) # 0

\* BatchedPlaintextPolyn: plaintext i holds the coefficients of degree i of
\* all the bins, as far as they have one.
Batched(polyns, ps_low_degree) ==
    [i \in 1 .. Max({Len(polyns[k]) : k \in DOMAIN polyns}) |->
        [vals |-> [k \in Slots |-> IF k \in DOMAIN polyns /\ i <= Len(polyns[k])
                                   THEN polyns[k][i] ELSE 0],
         ntt |-> InNttForm(i - 1, ps_low_degree),
         level |-> Level(IF ps_low_degree > 0 THEN 2 ELSE 1)]]
-----------------------------------------------------------------------------
(***************************************************************************)
(* The evaluator (external)                                                *)
(***************************************************************************)
Cipher(vals, ntt, level, ok) == [vals |-> vals, ntt |-> ntt, level |-> level, ok |-> ok]

ZeroVals == [k \in Slots |-> 0]
Unset == Cipher(ZeroVals, FALSE, 0, FALSE)    \* a default-constructed Ciphertext

MultiplyPlain(c, pt) ==
    Cipher([k \in Slots |-> Mod(c.vals[k] * pt.vals[k])], c.ntt, c.level,
           c.ok /\ c.ntt = pt.ntt /\ (c.ntt => c.level = pt.level))

AddCipher(a, b) ==
    Cipher([k \in Slots |-> Mod(a.vals[k] + b.vals[k])], a.ntt, a.level,
           a.ok /\ b.ok /\ a.ntt = b.ntt /\ a.level = b.level)

MultiplyCipher(a, b) ==
    Cipher([k \in Slots |-> Mod(a.vals[k] * b.vals[k])], FALSE, a.level,
           a.ok /\ b.ok /\ ~a.ntt /\ ~b.ntt /\ a.level = b.level)

AddPlain(c, pt) ==
    Cipher([k \in Slots |-> Mod(c.vals[k] + pt.vals[k])], c.ntt, c.level,
           c.ok /\ ~c.ntt /\ ~pt.ntt)

ToNtt(c)   == Cipher(c.vals, TRUE, c.level, c.ok /\ ~c.ntt)
FromNtt(c) == Cipher(c.vals, FALSE, c.level, c.ok /\ c.ntt)
ModSwitchTo(c, level) == Cipher(c.vals, c.ntt, level, c.ok /\ ~c.ntt /\ level <= c.level)
-----------------------------------------------------------------------------
\* Sender::ComputePowers.  sources are the powers of the query that were
\* sent; the DAG makes the other targets as products of two lower ones, and
\* every power is then brought to the form and the level it is used in.
ComputePowers(sources, targets, max_items_per_bin, ps_low_degree) ==
    LET product[w \in targets] ==
            IF w \in DOMAIN sources THEN sources[w]
            ELSE LET s == CHOOSE s \in targets : s < w /\ w - s \in targets
                 IN  MultiplyCipher(product[s], product[w - s])
        used(w) ==
            IF ps_low_degree = 0 THEN ToNtt(ModSwitchTo(product[w], Level(1)))
            ELSE IF w <= ps_low_degree THEN ToNtt(ModSwitchTo(product[w], Level(2)))
            ELSE ModSwitchTo(product[w], Level(1))
    IN  [w \in 1 .. max_items_per_bin |-> IF w \in targets THEN used(w) ELSE Unset]

\* Where a coefficient of a polynomial is kept.
Coeff(batched, i) == batched[i + 1]

Degree(batched) == Len(batched) - 1

\* The vector of powers has to reach the degree; it has an unused entry for
\* the power 0.
EnoughPowers(batched, powers) == Len(powers) + 1 >= Max({Len(batched), 2})

SumOf(ciphers, start) == FoldLeft(AddCipher, start, ciphers)

\* BatchedPlaintextPolyn::eval
Eval(batched, powers) ==
    LET terms == [d \in 1 .. Degree(batched) |-> MultiplyPlain(powers[d], Coeff(batched, d))]
        zero  == Cipher(ZeroVals, TRUE, powers[1].level, EnoughPowers(batched, powers))
    IN  AddPlain(FromNtt(SumOf(terms, zero)), Coeff(batched, 0))

\* BatchedPlaintextPolyn::eval_patstock: an inner polynomial for every high
\* power, its free term left out; then the inner polynomial without a high
\* power, term by term; then the free terms.
EvalPatstock(batched, powers, ps_low_degree) ==
    LET high == ps_low_degree + 1
        degree == Degree(batched)
        high_powers == degree \div high
        term(i, j) == MultiplyPlain(powers[j], Coeff(batched, i * high + j))
        inner_degree(i) == IF i < high_powers THEN ps_low_degree ELSE degree % high
        inner(i) == SumOf([j \in 1 .. inner_degree(i) - 1 |-> term(i, j + 1)], term(i, 1))
        inner_count == IF degree % high = 0 THEN high_powers - 1 ELSE high_powers
        products == [i \in 1 .. inner_count |->
            MultiplyCipher(ModSwitchTo(FromNtt(inner(i)), Level(1)), powers[i * high])]
        lowest == [j \in 1 .. ps_low_degree |-> ModSwitchTo(FromNtt(term(0, j)), Level(1))]
        free == [i \in 1 .. high_powers |->
            ModSwitchTo(MultiplyPlain(powers[i * high], Coeff(batched, i * high)), Level(1))]
        zero == Cipher(ZeroVals, FALSE, Level(1),
                       EnoughPowers(batched, powers) /\ 1 < ps_low_degree /\ ps_low_degree < degree)
    IN  AddPlain(SumOf(products \o lowest \o free, zero), Coeff(batched, 0))

\* ProcessBinBundleCache decides for every polynomial which of the two is
\* used.
UsingPs(batched, ps_low_degree) == ps_low_degree > 1 /\ ps_low_degree < Degree(batched)

Evaluated(batched, powers, ps_low_degree) ==
    IF UsingPs(batched, ps_low_degree) THEN EvalPatstock(batched, powers, ps_low_degree)
    ELSE Eval(batched, powers)
=============================================================================
