----------------------------- MODULE CryptoPAn -----------------------------
(***************************************************************************)
(* anonymize, anonymize_v6, deanonymize and deanonymize_v6, bit by bit.    *)
(* The cipher (or the hash) is any function that makes a bit of a block,   *)
(* fixed with the key; a block here is as long as an address.              *)
(***************************************************************************)
EXTENDS KeyedCipher, FiniteSets

CONSTANT MaxCalls   \* bound on the addresses

VARIABLES
  prf, pad,   \* the cipher under the key, as the bit that is used; m_pad
  mode,       \* what is under way
  addr,       \* orig_addr when anonymizing, anon_addr when deanonymizing
  pos,        \* how many bits are done
  result,     \* the one-time pad
  orig,       \* orig_addr when deanonymizing
  anonymized, \* history: the pairs <<address, anonymized address>>
  restored    \* history: the pairs <<anonymized address, address>>

vars == <<prf, pad, mode, addr, pos, result, orig, anonymized, restored>>
key  == <<prf, pad>>

Modes == {"idle", "anonymize", "deanonymize", "deanonymize_v6"}

\* Mutant: a bit more of the address.
PaddedLonger(a, n) == [k \in Positions |-> IF k <= n + 1 THEN a[k] ELSE pad[k]]

\* rin_input: the first n bits of the address, and the pad behind them.
Padded(a, n) == [k \in Positions |-> IF k <= n THEN a[k] ELSE pad[k]]

Init ==
  /\ prf \in Ciphers /\ pad \in Address
  /\ mode = "idle" /\ pos = 0
  /\ addr = Zeros /\ result = Zeros /\ orig = Zeros
  /\ anonymized = {} /\ restored = {}

\* A call: of an address to anonymize, or of one to deanonymize, in either version.
Call ==
  /\ mode = "idle" /\ Cardinality(anonymized) + Cardinality(restored) < MaxCalls
  /\ mode' \in Modes \ {"idle"}
  /\ addr' \in Address
  /\ pos' = 0 /\ result' = Zeros /\ orig' = Zeros
  /\ UNCHANGED <<key, anonymized, restored>>

AnonymizeBit ==
  /\ mode = "anonymize" /\ pos < Bits
  /\ result' = [result EXCEPT ![pos + 1] = prf[Padded(addr, pos)]]
  /\ pos' = pos + 1
  /\ UNCHANGED <<key, mode, addr, orig, anonymized, restored>>

AnonymizeReturn ==
  /\ mode = "anonymize" /\ pos = Bits
  /\ anonymized' = anonymized \cup {<<addr, [k \in Positions |-> Xor(result[k], addr[k])]>>}
  /\ mode' = "idle"
  /\ UNCHANGED <<key, addr, pos, result, orig, restored>>

\* Where the bits begin that are compared at a position: deanonymize shifts those before
\* it out of its 32 bits, deanonymize_v6 shifts a byte that was made an int, and keeps them.
ComparedFrom(p) == IF mode = "deanonymize_v6" THEN p - ((p - 1) % ByteBits) ELSE p

\* Mutant: the pad is made of the anonymized address.
DeanonymizeBitOfAnon ==
  /\ mode \in {"deanonymize", "deanonymize_v6"} /\ pos < Bits
  /\ LET new == [result EXCEPT ![pos + 1] = prf[Padded(addr, pos)]]
         miss == addr[pos + 1] # Xor(new[pos + 1], orig[pos + 1])
     IN /\ result' = new
        /\ orig' = IF miss THEN [orig EXCEPT ![pos + 1] = 1 - @] ELSE orig
  /\ pos' = pos + 1
  /\ UNCHANGED <<key, mode, addr, anonymized, restored>>

\* On a miss the bit, so far 0, is inverted.
DeanonymizeBit ==
  /\ mode \in {"deanonymize", "deanonymize_v6"} /\ pos < Bits
  /\ LET new == [result EXCEPT ![pos + 1] = prf[Padded(orig, pos)]]
         miss == \E k \in ComparedFrom(pos + 1) .. pos + 1 : addr[k] # Xor(new[k], orig[k])
     IN /\ result' = new
        /\ orig' = IF miss THEN [orig EXCEPT ![pos + 1] = 1 - @] ELSE orig
  /\ pos' = pos + 1
  /\ UNCHANGED <<key, mode, addr, anonymized, restored>>

DeanonymizeReturn ==
  /\ mode \in {"deanonymize", "deanonymize_v6"} /\ pos = Bits
  /\ restored' = restored \cup {<<addr, orig>>}
  /\ mode' = "idle"
  /\ UNCHANGED <<key, addr, pos, result, orig, anonymized>>

Next == Call \/ AnonymizeBit \/ AnonymizeReturn \/ DeanonymizeBit \/ DeanonymizeReturn

Spec == Init /\ [][Next]_vars

-----------------------------------------------------------------------------

TypeOK ==
  /\ prf \in [Address -> Bit] /\ pad \in Address
  /\ mode \in Modes /\ pos \in 0 .. Bits
  /\ addr \in Address /\ result \in Address /\ orig \in Address
  /\ anonymized \subseteq Address \X Address /\ restored \subseteq Address \X Address

\* What deanonymizing gives back is the address that was anonymized, under the same
\* key, whatever the cipher does; and it is given back only for that one.
Restores ==
  \A p \in anonymized, q \in restored : p[2] = q[1] <=> p[1] = q[2]

\* Two addresses that have their first bits in common have them in common when they
\* are anonymized, and the bit behind them differs if and only if it did.
PrefixPreserving ==
  \A p, q \in anonymized : \A n \in Positions :
    (\A k \in 1 .. n - 1 : p[1][k] = q[1][k]) =>
      /\ \A k \in 1 .. n - 1 : p[2][k] = q[2][k]
      /\ p[1][n] = q[1][n] <=> p[2][n] = q[2][n]

-----------------------------------------------------------------------------
(* The inductive invariant                                                 *)

Anonymized(a) == [k \in Positions |-> Xor(prf[Padded(a, k - 1)], a[k])]

\* The pad is right for the bits that are done.
PadSoFar ==
  mode = "anonymize" => \A k \in 1 .. pos : result[k] = prf[Padded(addr, k - 1)]

\* So are the bits that were found.  They anonymize to what was given, and are those of
\* any address that does.
OrigSoFar ==
  mode \in {"deanonymize", "deanonymize_v6"} =>
    /\ \A k \in 1 .. pos : /\ result[k] = prf[Padded(orig, k - 1)]
                           /\ addr[k] = Xor(result[k], orig[k])
    /\ \A k \in pos + 1 .. Bits : orig[k] = 0
    /\ \A a \in Address : addr = Anonymized(a) => \A k \in 1 .. pos : orig[k] = a[k]

Histories ==
  /\ \A p \in anonymized : p[2] = Anonymized(p[1])
  /\ \A q \in restored : /\ q[1] = Anonymized(q[2])
                         /\ \A a \in Address : q[1] = Anonymized(a) => q[2] = a

IInv == TypeOK /\ PadSoFar /\ OrigSoFar /\ Histories
=============================================================================
