------------------------- MODULE StateSerialization -------------------------
(***************************************************************************)
(* The bit layout of the state hash input (src/gadgets/state_hash.rs,     *)
(* StateHashGadget::evaluate) and the byte layout of the same state as    *)
(* published outside the circuit.                                          *)
(*                                                                         *)
(* In the circuit the block number's little-endian bits are reversed to   *)
(* big-endian, every public key is serialized by pad_point_bits (y bit,   *)
(* point-at-infinity flag, zero padding, x-coordinate big-endian), and    *)
(* reverse_inner_byte_order turns each byte's bits around because the      *)
(* Blake2s gadget reads the bits of a byte least significant first.       *)
(* Outside the circuit a state is the block number's big-endian bytes     *)
(* followed by the compressed keys: the x-coordinate as a big-endian      *)
(* number with the y bit as the most significant bit (the layout          *)
(* bls/src/types/compressed_signature.rs describes).                      *)
(*                                                                         *)
(* Widths are scaled down: a byte is BYTE_BITS bits, a block number       *)
(* BN_WIDTH bits and an x-coordinate X_BITS bits; a G2 key's x is one     *)
(* field element here (three in the code, each padded the same way).     *)
(***************************************************************************)
EXTENDS Integers, Sequences, SequencesExt

CONSTANTS
  BN_WIDTH,    \* bits of a block number (32 in the code)
  BYTE_BITS,   \* bits of a byte (8)
  X_BITS,      \* FqParameters::MODULUS_BITS (753)
  KeyX,        \* the x-coordinate of each public key, below 2^X_BITS
  KeyYBit,     \* YToBitGadget's bit of each public key's y-coordinate
  LIMBS,       \* limbs of a BigInteger768 (12)
  LIMB_BYTES   \* bytes of a limb (8, a u64)

ASSUME BN_WIDTH % BYTE_BITS = 0
\* Room for the y bit and the infinity flag before the x-coordinate.
ASSUME BYTE_BITS - (X_BITS % BYTE_BITS) >= 2

\* The bits of n in w bits, least significant first (UInt32::to_bits_le).
BitsLE(n, w) == [k \in 1..w |-> (n \div 2 ^ (k - 1)) % 2 = 1]

\* The bits of n, most significant first (FpGadget::to_bits).
BitsBE(n, w) == Reverse(BitsLE(n, w))

\* The number whose bits, least significant first, are b.
ValueLE(b) == FoldRight(LAMBDA bit, acc : (IF bit THEN 1 ELSE 0) + 2 * acc, b, 0)

\* A bit string cut into bytes.
Chunks(bits) ==
  [c \in 1..(Len(bits) \div BYTE_BITS) |->
     SubSeq(bits, (c - 1) * BYTE_BITS + 1, c * BYTE_BITS)]

\* Bits of a serialized point: the x-coordinate padded to whole bytes.
PointBits == X_BITS + (BYTE_BITS - (X_BITS % BYTE_BITS))

\* pad_point_bits: the y bit, the infinity flag (0), zero padding, then the
\* x-coordinate's bits most significant first.
pad_point_bits(x_bits, y_bit) ==
  <<y_bit>> \o [k \in 1..(PointBits - X_BITS - 1) |-> FALSE] \o x_bits

\* reverse_inner_byte_order: the bits of every byte in reverse order.
reverse_inner_byte_order(bits) ==
  FlattenSeq([c \in DOMAIN Chunks(bits) |-> Reverse(Chunks(bits)[c])])

\* Mutant: the block number's little-endian bits are used as they come.
evaluate_bits_le(bn, keys) ==
  reverse_inner_byte_order(
    BitsLE(bn, BN_WIDTH)
    \o FlattenSeq([k \in DOMAIN keys |->
                     pad_point_bits(BitsBE(KeyX[keys[k]], X_BITS), KeyYBit[keys[k]])]))

(***************************************************************************)
(* StateHashGadget::evaluate up to the hash: block number bits reversed   *)
(* to big-endian, each key's x bits and y bit padded and appended in list *)
(* order, then the inner byte order reversed for Blake2s.                 *)
(***************************************************************************)
evaluate_bits(bn, keys) ==
  reverse_inner_byte_order(
    Reverse(BitsLE(bn, BN_WIDTH))
    \o FlattenSeq([k \in DOMAIN keys |->
                     pad_point_bits(BitsBE(KeyX[keys[k]], X_BITS), KeyYBit[keys[k]])]))

\* The bytes the Blake2s gadget hashes: each byte's bits least significant
\* first.
blake2s_input(bits) == [c \in DOMAIN Chunks(bits) |-> ValueLE(Chunks(bits)[c])]

\* n as nbytes bytes, most significant first.
BytesBE(n, nbytes) ==
  [k \in 1..nbytes |-> (n \div 2 ^ (BYTE_BITS * (nbytes - k))) % 2 ^ BYTE_BITS]

\* A compressed public key: x with the y bit on top, big-endian.
CompressedKey(v) ==
  BytesBE((IF KeyYBit[v] THEN 2 ^ (PointBits - 1) ELSE 0) + KeyX[v],
          PointBits \div BYTE_BITS)

\* The state (block number, keys) as bytes outside the circuit.
ReferenceBytes(bn, keys) ==
  BytesBE(bn, BN_WIDTH \div BYTE_BITS)
  \o FlattenSeq([k \in DOMAIN keys |-> CompressedKey(keys[k])])

(***************************************************************************)
(* The conversions of bls/src/utils.rs, over bytes of BYTE_BITS bits.     *)
(***************************************************************************)

\* bytes_to_bits: each byte's bits from bit BYTE_BITS - 1 down to bit 0.
bytes_to_bits(bytes) == FlattenSeq([i \in DOMAIN bytes |-> BitsBE(bytes[i], BYTE_BITS)])

\* u64::from_be_bytes: the bytes as a number, most significant first.
from_be_bytes(bytes) == FoldLeft(LAMBDA acc, b : acc * 2 ^ BYTE_BITS + b, 0, bytes)

\* The limb-th group of LIMB_BYTES bytes the reader hands out.
LimbBytes(bytes, k) == SubSeq(bytes, (k - 1) * LIMB_BYTES + 1, k * LIMB_BYTES)

\* Mutant: the limbs are filled in array order, least significant first.
big_int_from_bytes_be_fwd(bytes) ==
  [l \in 1..LIMBS |-> from_be_bytes(LimbBytes(bytes, l))]

\* big_int_from_bytes_be: res is filled from its last (most significant)
\* limb down, each limb from the next LIMB_BYTES bytes of the reader.
\* res[1] is the least significant limb, as in BigInteger768.
big_int_from_bytes_be(bytes) ==
  [l \in 1..LIMBS |-> from_be_bytes(LimbBytes(bytes, LIMBS - l + 1))]

\* The value of a BigInteger768 given by its limbs, least significant first.
BigIntValue(res) ==
  FoldRight(LAMBDA limb, acc : limb + 2 ^ (BYTE_BITS * LIMB_BYTES) * acc, res, 0)

(***************************************************************************)
(* A published key read back with the BLS utilities is the key the        *)
(* circuit serializes: bytes_to_bits of its compressed bytes gives exactly *)
(* the bits pad_point_bits builds, and big_int_from_bytes_be (limbs filled *)
(* from the most significant down) gives x with the y bit on top.         *)
(***************************************************************************)
PublishedKeysDecode ==
  \A v \in DOMAIN KeyX :
    /\ bytes_to_bits(CompressedKey(v))
         = pad_point_bits(BitsBE(KeyX[v], X_BITS), KeyYBit[v])
    /\ BigIntValue(big_int_from_bytes_be(CompressedKey(v)))
         = (IF KeyYBit[v] THEN 2 ^ (PointBits - 1) ELSE 0) + KeyX[v]
=============================================================================
