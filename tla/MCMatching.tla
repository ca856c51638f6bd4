----------------------------- MODULE MCMatching -----------------------------
(***************************************************************************)
(* Bytes of three bits, the field of 17 elements with four bits per felt,  *)
(* batches of eight slots of which three felts per item use six, and ten   *)
(* hashed items that all compete for location 0.  The first seven share no *)
(* felt and fill a bundle to the last item it may hold; 8 shares a felt    *)
(* with 1, and 9 is put together from felts of 1, 2 and 3.                 *)
(***************************************************************************)
EXTENDS Matching

\* Three felts as the bytes of a hashed item, followed by bits that the
\* field elements leave out.
Bytes(f, rest) ==
    LET v == f[1] + 16 * f[2] + 256 * f[3]
    IN  <<v % 8, (v \div 8) % 8, (v \div 64) % 8, v \div 512, rest>>

MCPointOf == [i \in 1 .. 10 |-> i]

MCHashOf == <<Bytes(<<1, 2, 3>>, 0), Bytes(<<15, 0, 9>>, 1), Bytes(<<7, 8, 15>>, 2),
              Bytes(<<2, 5, 0>>, 3), Bytes(<<4, 4, 4>>, 4), Bytes(<<8, 11, 5>>, 5),
              Bytes(<<12, 13, 14>>, 6), Bytes(<<1, 9, 7>>, 7), Bytes(<<1, 0, 15>>, 0),
              Bytes(<<0, 0, 0>>, 1)>>

MCLocsOf == <<<<0>>, <<0, 3>>, <<0>>, <<2, 0>>, <<0, 1>>, <<0>>, <<0, 2>>, <<0>>, <<0>>, <<0, 1>>>>

Row(i, l) == [item |-> i, label |-> l]

MCDataSets ==
    {[i \in 1 .. 7 |-> Row(i, <<i, 7 - i, 5>>)],
     <<Row(1, <<7, 1>>), Row(2, <<>>), Row(3, <<6, 5, 4, 3>>), Row(9, <<2, 2, 2>>)>>,
     <<Row(10, <<0, 0, 0>>), Row(1, <<1, 2, 3>>), Row(2, <<3>>), Row(3, <<4>>), Row(8, <<7, 7, 7>>)>>,
     <<>>}

MCQueries == {<<9, 10>>, <<2, 8, 2>>, <<10>>, <<4, 7>>}

MCNonceDraws == {[r \in 1 .. 7 |-> <<0, 0>>], [r \in 1 .. 7 |-> <<r, 7 - r>>]}

MCKeyStream ==
    [w \in (1 .. 10) \X ((0 .. 7) \X (0 .. 7)) |->
        [b \in 1 .. 3 |-> (w[1] * b + w[2][1] * (b + w[1]) + w[2][2]) % 8]]

Document(ps, powers) ==
    [felts_per_item |-> 3, table_size |-> 4, max_items_per_bin |-> 8, hash_func_count |-> 2,
     ps_low_degree |-> ps, query_powers |-> powers, poly_modulus_degree |-> 8,
     plain_modulus |-> 17, plain_modulus_bits |-> Missing]

\* Documents that load, and others that break one rule each.
MCDocuments ==
    LET good == Document(2, {3, 6})
    IN  {good, Document(0, {3}), Document(3, {1, 4}), Document(1, {2}), Document(8, {2, 5}),
         [Document(4, {}) EXCEPT !.plain_modulus = Missing, !.plain_modulus_bits = 5],
         Document(2, {4}), Document(2, {9}), Document(0, {0}), Document(9, {}),
         Document(0, {Missing, 3}), Document(0, 1 .. 9),
         [good EXCEPT !.table_size = 0], [good EXCEPT !.table_size = 3],
         [good EXCEPT !.table_size = Missing], [good EXCEPT !.max_items_per_bin = 0],
         [good EXCEPT !.hash_func_count = 0], [good EXCEPT !.hash_func_count = 9],
         [good EXCEPT !.felts_per_item = 1], [good EXCEPT !.felts_per_item = 4],
         [good EXCEPT !.poly_modulus_degree = 2], [good EXCEPT !.plain_modulus = 31],
         [good EXCEPT !.plain_modulus = 33], [good EXCEPT !.plain_modulus_bits = 5],
         [good EXCEPT !.plain_modulus = Missing]}
=============================================================================
