-------------------------------- MODULE Bloom -------------------------------
(***************************************************************************)
(* The Bloom filter (filter/bloom.rs) as operators on records: `bits` is   *)
(* the byte array, a byte being the set of its 1 bits.                     *)
(* FnvHasher computes modulo 2^64 and hash_values modulo 2^32, with no     *)
(* operation that carries a high bit into a lower one, so a narrower       *)
(* HashWidth gives the low bits of the same hashes, and the same bit       *)
(* positions in a filter of the smallest size, 64 bits.  The constants     *)
(* below are the code's modulo 2^16.                                       *)
(***************************************************************************)
EXTENDS Integers, Sequences, SequencesExt, Bitwise, FiniteSetsExt

CONSTANTS
    Key,            \* byte strings
    HashWidth       \* bits of a hash that are kept

ASSUME BloomAssumption == HashWidth \in 8 .. 16

CeilDiv(a, b) == (a + b - 1) \div b
Clamp(n, lo, hi) == IF n < lo THEN lo ELSE IF n > hi THEN hi ELSE n

(* div_ceil: the last byte may be used in part.                            *)
WithBitsAndHashes(num_bits, num_hashes) ==
    [bits |-> [b \in 1 .. CeilDiv(num_bits, 8) |-> {}], num_bits |-> num_bits, num_hashes |-> num_hashes]

(* round(0.69 * bits_per_key) hashes.                                      *)
WithBitsPerKey(num_keys, bits_per_key) ==
    WithBitsAndHashes(Max({num_keys * bits_per_key, 64}),
                      Clamp((69 * bits_per_key + 50) \div 100, 1, 30))

DefaultWithKeys(num_keys) == WithBitsPerKey(num_keys, 10)

(* -ln(0.01) / ln(2)^2 bits for a key and ln(2) times as many hashes.      *)
OptimalNumBits(num_keys) == Max({64, CeilDiv(num_keys * 9585059, 1000000)})
OptimalNumHashes(num_bits, num_keys) == Clamp(CeilDiv(num_bits * 693147, num_keys * 1000000), 1, 30)

(* BloomFilter::new with the false positive rate 0.01.                     *)
NewFilter(expected_keys) ==
    IF expected_keys = 0 THEN WithBitsAndHashes(64, 1)
    ELSE LET num_bits == OptimalNumBits(expected_keys)
         IN  WithBitsAndHashes(num_bits, OptimalNumHashes(num_bits, expected_keys))

(* FnvHasher over the length, as eight bytes, and the bytes of a slice.    *)
HashWithSeed(key, seed) ==
    FoldLeft(LAMBDA state, byte : ((state ^^ byte) * 435) % 2^HashWidth,
             (8997 ^^ seed) % 2^HashWidth,
             <<Len(key), 0, 0, 0, 0, 0, 0, 0>> \o key)

(* The seeds are 0xbc9f1d34 and 0xd0e89c7b.                                *)
Hash1 == [key \in Key |-> HashWithSeed(key, 7476)]
Hash2 == [key \in Key |-> HashWithSeed(key, 40059)]

(* Double hashing: the positions of a key.                                 *)
HashValues(f, key) ==
    {((Hash1[key] + i * Hash2[key]) % 2^HashWidth) % f.num_bits : i \in 0 .. f.num_hashes - 1}

IsBitSet(f, pos) == pos < f.num_bits /\ pos % 8 \in f.bits[pos \div 8 + 1]

(* add: set_bit for every position.                                        *)
FilterAdd(f, key) ==
    [f EXCEPT !.bits = [b \in DOMAIN @ |->
        @[b] \cup {pos % 8 : pos \in {p \in HashValues(f, key) : p \div 8 + 1 = b}}]]

MayContain(f, key) == \A pos \in HashValues(f, key) : IsBitSet(f, pos)

(* encode: 4 bytes, 8 bytes and the bits.                                  *)
FilterSize(f) == 12 + Len(f.bits)

(* The check of decode on `len` bytes of data with this header.            *)
FilterDecodes(f, len) == len >= 12 /\ len = 12 + CeilDiv(f.num_bits, 8)
=============================================================================
