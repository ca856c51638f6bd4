------------------------------ MODULE Encoding ------------------------------
(***************************************************************************)
(* Items and labels as field elements and back (common/apsi/util/          *)
(* db_encoding.cpp), and the encryption of labels (label_encryptor.cpp).   *)
(* The bit string of an item or a label is cut into pieces of as many bits *)
(* as a field element can hold.                                            *)
(*                                                                         *)
(* Byte strings are sequences of numbers below 2^W, so that a model can    *)
(* have short bytes.  The code's reads past the end of a buffer would show *)
(* as a sequence applied outside its domain.                               *)
(***************************************************************************)
EXTENDS Integers, Sequences, SequencesExt, FiniteSetsExt, Bitwise

CONSTANTS
    W,                 \* bits of a byte: 8 in the code
    FeltBytes,         \* bytes of a felt_t: 8 in the code
    BitsPerFelt,       \* mod.bit_count() - 1
    MaxNonceByteCount, \* max_nonce_byte_count: 16 in the code
    KeyStream          \* <<key, nonce>> -> the bytes of APSI_blake2xb

\* The bits of a felt fill a byte at least; copy_with_bit_offset is not
\* right for shorter pieces.
ASSUME EncodingAssumption ==
    /\ W \in Nat \ {0} /\ BitsPerFelt \in Nat
    /\ W <= BitsPerFelt /\ BitsPerFelt < W * FeltBytes

CeilDiv(a, b) == (a + b - 1) \div b

ByteCount(bits) == CeilDiv(bits, W)

Zeros(n) == [i \in 1 .. n |-> 0]

\* read_u64_little_endian, write_u64_little_endian
ReadLittleEndian(bytes) == FoldLeftDomain(LAMBDA v, i : v + bytes[i] * 2^(W * (i - 1)), 0, bytes)
WriteLittleEndian(num)  == [i \in 1 .. FeltBytes |-> (num \div 2^(W * (i - 1))) % 2^W]
-----------------------------------------------------------------------------
\* The copy_with_bit_offset that reads at an offset and writes from the
\* start of a buffer of zeros: the full bytes, each from two source bytes
\* when the offset is not a multiple of W, then the remaining bits, from one
\* byte or two.
CopyFrom(src, offset, count) ==
    LET low   == offset % W
        full  == count \div W
        rem   == count % W
        byte(i) == src[offset \div W + i + 1]
        whole(i) == IF low = 0 THEN byte(i)
                    ELSE (byte(i) \div 2^low) + ((byte(i + 1) * 2^(W - low)) % 2^W)
        part  == IF low + rem <= W THEN (byte(full) \div 2^low) % 2^rem
                 ELSE (byte(full) \div 2^low)
                      + (byte(full + 1) % 2^(rem - (W - low))) * 2^(W - low)
    IN  [i \in 1 .. full |-> whole(i - 1)] \o (IF rem > 0 THEN <<part>> ELSE <<>>)

\* The copy_with_bit_offset that writes at an offset; its one caller reads
\* from the start.  The bits up to the next byte of dest come last.  There
\* high_diff, an unsigned number, is never <= 0: from offset 0 it wraps, the
\* other branch is taken with a shift by more than 31 (undefined, but its
\* result is shifted out), and the first byte of src is or-ed in unmasked.
CopyTo(src, offset, count, dest) ==
    LET next  == ByteCount(offset)
        diff  == Min({next * W - offset, count})
        tail  == IF count > diff THEN CopyFrom(src, diff, count - diff) ELSE <<>>
        low   == offset % W
        first == dest[offset \div W + 1]
        kept  == (first % 2^low) + (first \div 2^(low + diff)) * 2^(low + diff)
    IN  [i \in DOMAIN dest |->
            IF i > next /\ i <= next + Len(tail) THEN tail[i - next]
            ELSE IF diff > 0 /\ i = offset \div W + 1 THEN kept | ((src[1] * 2^low) % 2^W)
            ELSE dest[i]]

\* bits_to_field_elts
BitsToFieldElts(bytes, bit_count) ==
    [j \in 1 .. CeilDiv(bit_count, BitsPerFelt) |->
        LET offset == (j - 1) * BitsPerFelt
        IN  ReadLittleEndian(CopyFrom(bytes, offset, Min({BitsPerFelt, bit_count - offset})))]

FieldEltsToBits(felts, bit_count) ==
    FoldLeftDomain(LAMBDA buf, j :
            LET offset == (j - 1) * BitsPerFelt
            IN  CopyTo(WriteLittleEndian(felts[j]), offset,
                       Min({BitsPerFelt, bit_count - offset}), buf),
        Zeros(ByteCount(bit_count)), felts)
-----------------------------------------------------------------------------
AlgebraizeItem(item, item_bit_count) == BitsToFieldElts(item, item_bit_count)

\* Bug variant: the parts of a label are handed out in the order of its bits.
Bug_LabelParts(alg_label, felts_per_item) ==
    LET label_size == CeilDiv(Len(alg_label), felts_per_item)
        padded == alg_label \o Zeros(label_size * felts_per_item - Len(alg_label))
    IN  [j \in 1 .. felts_per_item |->
            [l \in 1 .. label_size |-> padded[label_size * (j - 1) + l]]]

\* The label padded to a multiple of felts_per_item and rearranged, so that
\* the receiver can concatenate the parts it gets: the parts of felt j.
LabelParts(alg_label, felts_per_item) ==
    LET label_size == CeilDiv(Len(alg_label), felts_per_item)
        padded == alg_label \o Zeros(label_size * felts_per_item - Len(alg_label))
    IN  [j \in 1 .. felts_per_item |->
            [l \in 1 .. label_size |-> padded[felts_per_item * (l - 1) + j]]]

AlgebraizeItemLabel(item, label, item_bit_count) ==
    LET alg_item == AlgebraizeItem(item, item_bit_count)
        parts == LabelParts(BitsToFieldElts(label, W * Len(label)), Len(alg_item))
    IN  [j \in DOMAIN alg_item |-> [felt |-> alg_item[j], label |-> parts[j]]]

DealgebraizeLabel(alg_label, label_bit_count) == FieldEltsToBits(alg_label, label_bit_count)

\* compute_label_size
LabelSize(label_byte_count, item_bit_count) == CeilDiv(W * label_byte_count, item_bit_count)
-----------------------------------------------------------------------------
XorBytes(a, b) == [i \in DOMAIN a |-> IF i \in DOMAIN b THEN a[i] ^^ b[i] ELSE a[i]]

\* A label of another size is cut, or continued by the key stream alone.
EncryptLabel(label, key, label_byte_count, nonce) ==
    nonce \o XorBytes(SubSeq(KeyStream[key, nonce], 1, label_byte_count), label)

DecryptLabel(encrypted, key, nonce_byte_count) ==
    LET nonce == SubSeq(encrypted, 1, nonce_byte_count)
        body  == SubSeq(encrypted, nonce_byte_count + 1, Len(encrypted))
    IN  XorBytes(SubSeq(KeyStream[key, nonce], 1, Len(body)), body)
=============================================================================
