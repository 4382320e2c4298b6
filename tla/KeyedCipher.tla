---------------------------- MODULE KeyedCipher ----------------------------
(***************************************************************************)
(* IP addresses as sequences of bits, and the ciphers that make a bit of   *)
(* one: the first bit of Rijndael's block, or the parity of the hash.      *)
(***************************************************************************)
EXTENDS Naturals

CONSTANTS
  Bits,      \* the bits of an address: 32, or 128
  ByteBits,  \* the bits of a byte: 8
  Ciphers    \* what the cipher may be, under a key

Positions == 1 .. Bits
Bit       == {0, 1}
Address   == [Positions -> Bit]
Zeros     == [k \in Positions |-> 0]

ASSUME KeyedCipherAssumption ==
  /\ Bits \in Nat /\ ByteBits \in Nat \ {0}
  /\ Ciphers \subseteq [Address -> Bit]

Xor(a, b) == IF a = b THEN 0 ELSE 1
=============================================================================
