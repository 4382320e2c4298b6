-------------------------- MODULE CryptoPAn_proofs --------------------------
(***************************************************************************)
(* For addresses of any length, any cipher and any pad: deanonymizing is   *)
(* the inverse of anonymizing, and common prefixes stay common.            *)
(***************************************************************************)
EXTENDS CryptoPAn, TLAPS

\* The block depends on the first bits of the address alone.
LEMMA PaddedAgrees ==
  ASSUME NEW a \in Address, NEW b \in Address, NEW n \in Nat,
         \A k \in 1 .. n : k \in Positions => a[k] = b[k]
  PROVE  Padded(a, n) = Padded(b, n)
<1>1. \A k \in Positions : k <= n => a[k] = b[k]
  BY KeyedCipherAssumption DEF Positions
<1>2. QED BY <1>1, KeyedCipherAssumption DEF Padded, Positions

\* The cipher answers with a bit.
LEMMA PaddedType ==
  ASSUME TypeOK, NEW a \in Address, NEW n \in Nat
  PROVE  Padded(a, n) \in Address /\ prf[Padded(a, n)] \in Bit
<1>1. Padded(a, n) \in Address
  BY KeyedCipherAssumption DEF TypeOK, Padded, Address, Positions
<1>2. QED BY <1>1 DEF TypeOK

LEMMA XorType == \A a, b \in Bit : Xor(a, b) \in Bit
BY DEF Xor, Bit

\* Of three bits the third is given by the others.
LEMMA XorCancels ==
  \A a, b, c \in Bit : (Xor(c, a) = Xor(c, b) <=> a = b) /\ (a = Xor(c, b) <=> b = Xor(c, a))
BY DEF Xor, Bit

LEMMA AnonymizedType ==
  ASSUME TypeOK, NEW a \in Address
  PROVE  Anonymized(a) \in Address
<1>1. \A k \in Positions : Xor(prf[Padded(a, k - 1)], a[k]) \in Bit
  <2>1. TAKE k \in Positions
  <2>2. k - 1 \in Nat /\ a[k] \in Bit
    BY KeyedCipherAssumption DEF Positions, Address
  <2>3. QED BY <2>2, PaddedType, XorType
<1>2. QED BY <1>1 DEF Anonymized, Address

-----------------------------------------------------------------------------

\* The key is never changed.
LEMMA KeyKept == [Next]_vars => UNCHANGED key
BY DEF Next, vars, key, Call, AnonymizeBit, AnonymizeReturn, DeanonymizeBit, DeanonymizeReturn

LEMMA AnonymizedKept ==
  ASSUME UNCHANGED key, NEW a
  PROVE  /\ Anonymized(a)' = Anonymized(a)
         /\ \A n : Padded(a, n)' = Padded(a, n)
BY DEF Anonymized, Padded, key

\* Type correctness: a bit is only ever written to a position of an address.
THEOREM TypeCorrect == Spec => []TypeOK
<1>1. Init => TypeOK
  <2>1. Zeros \in Address
    BY DEF Zeros, Address, Bit
  <2>2. Ciphers \subseteq [Address -> Bit] /\ 0 \in 0 .. Bits
    BY KeyedCipherAssumption
  <2>3. QED BY <2>1, <2>2 DEF Init, TypeOK, Modes
<1>2. TypeOK /\ [Next]_vars => TypeOK'
  <2> SUFFICES ASSUME TypeOK, [Next]_vars PROVE TypeOK'
    OBVIOUS
  <2>1. CASE Call
    BY <2>1, KeyedCipherAssumption DEF Call, TypeOK, Zeros, Address, Bit, key
  <2>2. CASE AnonymizeBit
    <3>1. pos + 1 \in 0 .. Bits /\ pos \in Nat
      BY <2>2, KeyedCipherAssumption DEF AnonymizeBit, TypeOK
    <3>2. prf[Padded(addr, pos)] \in Bit
      BY <3>1, PaddedType DEF TypeOK
    <3>3. result' \in Address
      BY <2>2, <3>2 DEF AnonymizeBit, TypeOK, Address
    <3>4. QED BY <2>2, <3>1, <3>3 DEF AnonymizeBit, TypeOK, key
  <2>3. CASE AnonymizeReturn
    <3>1. \A k \in Positions : Xor(result[k], addr[k]) \in Bit
      BY XorType DEF TypeOK, Address
    <3>2. [k \in Positions |-> Xor(result[k], addr[k])] \in Address
      BY <3>1 DEF Address
    <3>3. QED BY <2>3, <3>2 DEF AnonymizeReturn, TypeOK, key, Modes
  <2>4. CASE DeanonymizeBit
    <3>1. pos + 1 \in 0 .. Bits /\ pos \in Nat
      BY <2>4, KeyedCipherAssumption DEF DeanonymizeBit, TypeOK
    <3>2. prf[Padded(orig, pos)] \in Bit
      BY <3>1, PaddedType DEF TypeOK
    <3>3. result' \in Address
      BY <2>4, <3>2 DEF DeanonymizeBit, TypeOK, Address
    <3>4. orig' \in Address
      <4>1. [orig EXCEPT ![pos + 1] = 1 - @] \in Address
        <5>1. pos + 1 \in Positions
          BY <2>4, <3>1 DEF DeanonymizeBit, Positions
        <5>2. 1 - orig[pos + 1] \in Bit
          BY <5>1 DEF TypeOK, Address, Bit
        <5>3. QED BY <5>1, <5>2 DEF TypeOK, Address
      <4>2. orig' \in {orig, [orig EXCEPT ![pos + 1] = 1 - @]}
        BY <2>4 DEF DeanonymizeBit
      <4>3. QED BY <4>1, <4>2 DEF TypeOK
    <3>5. QED BY <2>4, <3>1, <3>3, <3>4 DEF DeanonymizeBit, TypeOK, key
  <2>5. CASE DeanonymizeReturn
    BY <2>5 DEF DeanonymizeReturn, TypeOK, key, Modes
  <2>6. CASE UNCHANGED vars
    BY <2>6 DEF vars, TypeOK
  <2>7. QED BY <2>1, <2>2, <2>3, <2>4, <2>5, <2>6 DEF Next
<1>3. QED BY <1>1, <1>2, PTL DEF Spec

-----------------------------------------------------------------------------

LEMMA PadSoFarKept ==
  ASSUME TypeOK, PadSoFar, [Next]_vars
  PROVE  PadSoFar'
<1>1. UNCHANGED key
  BY KeyKept
<1>2. CASE AnonymizeBit
  <2>1. pos \in Nat /\ pos + 1 \in Positions
    BY <1>2, KeyedCipherAssumption DEF AnonymizeBit, TypeOK, Positions
  <2>2. result' = [result EXCEPT ![pos + 1] = prf[Padded(addr, pos)]] /\ addr' = addr /\ pos' = pos + 1
    BY <1>2 DEF AnonymizeBit
  <2>3. ASSUME NEW k \in 1 .. pos' PROVE result'[k] = prf[Padded(addr, k - 1)]
    <3>1. CASE k = pos + 1
      <4>1. k - 1 = pos
        BY <2>1, <3>1
      <4>2. QED BY <2>1, <2>2, <3>1, <4>1 DEF TypeOK, Address
    <3>2. CASE k \in 1 .. pos
      BY <1>2, <2>1, <2>2, <3>2 DEF AnonymizeBit, PadSoFar, TypeOK, Address
    <3>3. QED BY <2>1, <2>2, <3>1, <3>2
  <2>4. \A k \in 1 .. pos' : result'[k] = prf'[Padded(addr, k - 1)']
    BY <1>1, <2>2, <2>3 DEF key, Padded
  <2>5. QED BY <2>2, <2>4 DEF PadSoFar, Padded
<1>3. CASE Call
  BY <1>3, KeyedCipherAssumption DEF Call, PadSoFar
<1>4. CASE AnonymizeReturn \/ DeanonymizeBit \/ DeanonymizeReturn
  BY <1>4 DEF AnonymizeReturn, DeanonymizeBit, DeanonymizeReturn, PadSoFar
<1>5. CASE UNCHANGED vars
  BY <1>5 DEF vars, PadSoFar, Padded
<1>6. QED BY <1>2, <1>3, <1>4, <1>5 DEF Next

\* The step that matters: the bit found is right, whichever bits before it are compared.
LEMMA BitFound ==
  ASSUME TypeOK, OrigSoFar, DeanonymizeBit
  PROVE  /\ \A k \in 1 .. pos : orig'[k] = orig[k] /\ result'[k] = result[k]
         /\ result'[pos + 1] = prf[Padded(orig, pos)]
         /\ addr[pos + 1] = Xor(result'[pos + 1], orig'[pos + 1])
         /\ \A k \in pos + 2 .. Bits : orig'[k] = 0
<1> DEFINE new == [result EXCEPT ![pos + 1] = prf[Padded(orig, pos)]]
           miss == \E k \in ComparedFrom(pos + 1) .. pos + 1 : addr[k] # Xor(new[k], orig[k])
<1>1. /\ mode \in {"deanonymize", "deanonymize_v6"}
      /\ pos \in Nat /\ pos + 1 \in Positions /\ 1 .. pos \subseteq Positions /\ pos + 1 > pos
      /\ pos + 2 .. Bits \subseteq Positions
  BY KeyedCipherAssumption DEF DeanonymizeBit, TypeOK, Positions
<1>2. result' = new /\ orig' = IF miss THEN [orig EXCEPT ![pos + 1] = 1 - @] ELSE orig
  BY DEF DeanonymizeBit
<1>3. prf[Padded(orig, pos)] \in Bit
  BY <1>1, PaddedType DEF TypeOK
<1>4. new \in Address /\ new[pos + 1] = prf[Padded(orig, pos)] /\ \A k \in 1 .. pos : new[k] = result[k]
  BY <1>1, <1>3 DEF TypeOK, Address
<1>5. \A k \in 1 .. pos : addr[k] = Xor(new[k], orig[k])
  BY <1>1, <1>4 DEF OrigSoFar
<1>6. orig[pos + 1] = 0 /\ \A k \in pos + 2 .. Bits : orig[k] = 0
  BY <1>1, KeyedCipherAssumption DEF OrigSoFar, Positions
<1>7. ComparedFrom(pos + 1) \in 1 .. pos + 1
  <2>1. pos % ByteBits \in 0 .. pos
    <3>1. ByteBits \in Nat /\ ByteBits > 0
      BY KeyedCipherAssumption
    <3>2. QED BY <1>1, <3>1
  <2>2. (pos + 1) - 1 = pos
    BY <1>1
  <2>3. QED BY <1>1, <2>1, <2>2 DEF ComparedFrom
<1>8. miss <=> addr[pos + 1] # Xor(new[pos + 1], orig[pos + 1])
  <2>1. pos + 1 \in ComparedFrom(pos + 1) .. pos + 1
    BY <1>1, <1>7
  <2>2. \A k \in ComparedFrom(pos + 1) .. pos + 1 : k = pos + 1 \/ k \in 1 .. pos
    BY <1>1, <1>7
  <2>3. QED BY <1>5, <2>1, <2>2
<1>9. addr[pos + 1] \in Bit /\ new[pos + 1] \in Bit /\ orig[pos + 1] \in Bit
  BY <1>1, <1>4 DEF TypeOK, Address
<1>10. CASE miss
  <2>1. orig' = [orig EXCEPT ![pos + 1] = 1 - orig[pos + 1]]
    BY <1>2, <1>10
  <2>2. orig'[pos + 1] = 1 /\ \A k \in Positions : k # pos + 1 => orig'[k] = orig[k]
    BY <1>1, <1>6, <2>1 DEF TypeOK, Address
  <2>3. addr[pos + 1] = Xor(new[pos + 1], 1)
    BY <1>6, <1>8, <1>9, <1>10 DEF Xor, Bit
  <2>4. \A k \in 1 .. pos : k \in Positions /\ k # pos + 1
    BY <1>1
  <2>5. \A k \in pos + 2 .. Bits : k \in Positions /\ k # pos + 1
    BY <1>1, KeyedCipherAssumption
  <2>6. QED BY <1>2, <1>4, <1>6, <2>2, <2>3, <2>4, <2>5
<1>11. CASE ~miss
  BY <1>2, <1>4, <1>6, <1>8, <1>11
<1>12. QED BY <1>10, <1>11

LEMMA OrigSoFarKept ==
  ASSUME TypeOK, TypeOK', OrigSoFar, [Next]_vars
  PROVE  OrigSoFar'
<1>1. UNCHANGED key /\ \A a : Anonymized(a)' = Anonymized(a)
  BY KeyKept, AnonymizedKept
<1>2. CASE DeanonymizeBit
  <2>1. /\ mode \in {"deanonymize", "deanonymize_v6"} /\ mode' = mode
        /\ addr' = addr /\ pos' = pos + 1 /\ pos \in Nat /\ pos + 1 \in Positions
        /\ 1 .. pos' = (1 .. pos) \cup {pos + 1} /\ pos' + 1 = pos + 2
        /\ 1 .. pos \subseteq Positions
    BY <1>2, KeyedCipherAssumption DEF DeanonymizeBit, TypeOK, Positions
  <2>2. /\ \A k \in 1 .. pos : orig'[k] = orig[k] /\ result'[k] = result[k]
        /\ result'[pos + 1] = prf[Padded(orig, pos)]
        /\ addr[pos + 1] = Xor(result'[pos + 1], orig'[pos + 1])
        /\ \A k \in pos + 2 .. Bits : orig'[k] = 0
    BY <1>2, BitFound
  <2>3. \A n \in 0 .. pos : Padded(orig', n) = Padded(orig, n)
    <3>1. TAKE n \in 0 .. pos
    <3>2. n \in Nat /\ \A k \in 1 .. n : k \in 1 .. pos
      BY <2>1
    <3>3. orig \in Address /\ orig' \in Address
      BY DEF TypeOK
    <3>4. QED BY <2>2, <3>2, <3>3, PaddedAgrees
  <2>4. \A k \in 1 .. pos' : /\ result'[k] = prf[Padded(orig', k - 1)]
                             /\ addr[k] = Xor(result'[k], orig'[k])
    <3>1. TAKE k \in 1 .. pos'
    <3>2. CASE k = pos + 1
      <4>1. k - 1 = pos /\ pos \in 0 .. pos
        BY <2>1, <3>2
      <4>2. QED BY <2>2, <2>3, <3>2, <4>1
    <3>3. CASE k \in 1 .. pos
      <4>1. k - 1 \in 0 .. pos
        BY <2>1, <3>3
      <4>2. QED BY <2>1, <2>2, <2>3, <3>3, <4>1 DEF OrigSoFar
    <3>4. QED BY <2>1, <3>2, <3>3
  <2>5. ASSUME NEW a \in Address, addr = Anonymized(a)
        PROVE  \A k \in 1 .. pos' : orig'[k] = a[k]
    <3>1. \A k \in 1 .. pos : orig[k] = a[k]
      BY <2>1, <2>5 DEF OrigSoFar
    <3>2. Padded(orig, pos) = Padded(a, pos)
      BY <2>1, <3>1, PaddedAgrees DEF TypeOK
    <3>3. (pos + 1) - 1 = pos
      BY <2>1
    <3>4. addr[pos + 1] = Xor(prf[Padded(a, pos)], a[pos + 1])
      BY <2>1, <2>5, <3>3 DEF Anonymized
    <3>5. a[pos + 1] \in Bit /\ orig'[pos + 1] \in Bit /\ prf[Padded(orig, pos)] \in Bit
      BY <2>1, PaddedType DEF TypeOK, Address
    <3>6. orig'[pos + 1] = a[pos + 1]
      BY <2>2, <3>2, <3>4, <3>5, XorCancels
    <3>7. QED BY <2>1, <2>2, <3>1, <3>6
  <2>6. \A k \in 1 .. pos' : /\ result'[k] = prf'[Padded(orig, k - 1)']
                             /\ addr[k] = Xor(result'[k], orig'[k])
    BY <1>1, <2>4 DEF key, Padded
  <2>7. \A a \in Address : addr = Anonymized(a)' => \A k \in 1 .. pos' : orig'[k] = a[k]
    BY <1>1, <2>5
  <2>8. QED BY <2>1, <2>2, <2>6, <2>7 DEF OrigSoFar
<1>3. CASE Call
  <2>1. pos' = 0 /\ orig' = Zeros
    BY <1>3 DEF Call
  <2>2. \A k \in pos' + 1 .. Bits : orig'[k] = 0
    BY <2>1 DEF Zeros, Positions
  <2>3. 1 .. pos' = {}
    BY <2>1
  <2>4. QED BY <2>2, <2>3 DEF OrigSoFar
<1>4. CASE AnonymizeBit \/ AnonymizeReturn \/ DeanonymizeReturn
  BY <1>4 DEF AnonymizeBit, AnonymizeReturn, DeanonymizeReturn, OrigSoFar
<1>5. CASE UNCHANGED vars
  BY <1>1, <1>5 DEF vars, OrigSoFar, Padded
<1>6. QED BY <1>2, <1>3, <1>4, <1>5 DEF Next

LEMMA HistoriesKept ==
  ASSUME TypeOK, PadSoFar, OrigSoFar, Histories, [Next]_vars
  PROVE  Histories'
<1>1. UNCHANGED key /\ \A a : Anonymized(a)' = Anonymized(a)
  BY KeyKept, AnonymizedKept
<1>2. SUFFICES /\ \A p \in anonymized' : p[2] = Anonymized(p[1])
               /\ \A q \in restored' : /\ q[1] = Anonymized(q[2])
                                      /\ \A a \in Address : q[1] = Anonymized(a) => q[2] = a
  BY <1>1, AnonymizedKept DEF Histories
<1>3. CASE AnonymizeReturn
  <2>1. pos = Bits /\ mode = "anonymize" /\ restored' = restored
        /\ anonymized' = anonymized \cup {<<addr, [k \in Positions |-> Xor(result[k], addr[k])]>>}
    BY <1>3 DEF AnonymizeReturn
  <2>2. \A k \in Positions : result[k] = prf[Padded(addr, k - 1)]
    BY <2>1 DEF PadSoFar, Positions
  <2>3. [k \in Positions |-> Xor(result[k], addr[k])] = Anonymized(addr)
    BY <2>2 DEF Anonymized
  <2>4. QED BY <2>1, <2>3 DEF Histories
<1>4. CASE DeanonymizeReturn
  <2>1. /\ pos = Bits /\ mode \in {"deanonymize", "deanonymize_v6"}
        /\ anonymized' = anonymized /\ restored' = restored \cup {<<addr, orig>>}
    BY <1>4 DEF DeanonymizeReturn
  <2>2. \A k \in Positions : addr[k] = Xor(prf[Padded(orig, k - 1)], orig[k])
    BY <2>1 DEF OrigSoFar, Positions
  <2>3. addr = Anonymized(orig)
    BY <2>2 DEF Anonymized, TypeOK, Address
  <2>4. \A a \in Address : addr = Anonymized(a) => orig = a
    <3>1. TAKE a \in Address
    <3>2. HAVE addr = Anonymized(a)
    <3>3. \A k \in Positions : orig[k] = a[k]
      BY <2>1, <3>2 DEF OrigSoFar, Positions
    <3>4. QED BY <3>3 DEF TypeOK, Address
  <2>5. QED BY <2>1, <2>3, <2>4 DEF Histories
<1>5. CASE Call \/ AnonymizeBit \/ DeanonymizeBit \/ UNCHANGED vars
  BY <1>5 DEF Call, AnonymizeBit, DeanonymizeBit, vars, Histories
<1>6. QED BY <1>3, <1>4, <1>5 DEF Next

\* The invariant is inductive: bits are right as far as they are done.
THEOREM Invariant == Spec => []IInv
<1>1. Init => PadSoFar /\ OrigSoFar /\ Histories
  BY DEF Init, PadSoFar, OrigSoFar, Histories
<1>2. TypeOK /\ TypeOK' /\ PadSoFar /\ OrigSoFar /\ Histories /\ [Next]_vars
        => PadSoFar' /\ OrigSoFar' /\ Histories'
  BY PadSoFarKept, OrigSoFarKept, HistoriesKept
<1>3. QED BY <1>1, <1>2, TypeCorrect, PTL DEF Spec, IInv

\* README: deanonymization is possible with the correct key.  It gives back the address
\* that was anonymized, and no other one.
THEOREM RestoresCorrect == Spec => []Restores
<1>1. IInv => Restores
  <2>1. SUFFICES ASSUME IInv, NEW p \in anonymized, NEW q \in restored
                 PROVE  p[2] = q[1] <=> p[1] = q[2]
    BY DEF Restores
  <2>2. p[1] \in Address /\ p[2] = Anonymized(p[1])
    BY <2>1 DEF IInv, TypeOK, Histories
  <2>3. /\ q[1] = Anonymized(q[2])
        /\ \A a \in Address : q[1] = Anonymized(a) => q[2] = a
    BY <2>1 DEF IInv, Histories
  <2>4. QED BY <2>2, <2>3
<1>2. QED BY <1>1, Invariant, PTL

\* README: anonymization is prefix-preserving.
THEOREM PrefixPreservingCorrect == Spec => []PrefixPreserving
<1>1. IInv => PrefixPreserving
  <2>1. SUFFICES ASSUME IInv, NEW p \in anonymized, NEW q \in anonymized, NEW n \in Positions,
                        \A k \in 1 .. n - 1 : p[1][k] = q[1][k]
                 PROVE  /\ \A k \in 1 .. n - 1 : p[2][k] = q[2][k]
                        /\ p[1][n] = q[1][n] <=> p[2][n] = q[2][n]
    BY DEF PrefixPreserving
  <2>2. /\ p[1] \in Address /\ p[2] = Anonymized(p[1])
        /\ q[1] \in Address /\ q[2] = Anonymized(q[1])
    BY <2>1 DEF IInv, TypeOK, Histories
  <2>3. \A m \in 1 .. n : Padded(p[1], m - 1) = Padded(q[1], m - 1)
    <3>1. TAKE m \in 1 .. n
    <3>2. m - 1 \in Nat /\ \A k \in 1 .. m - 1 : k \in 1 .. n - 1
      BY KeyedCipherAssumption DEF Positions
    <3>3. QED BY <2>1, <2>2, <3>2, PaddedAgrees
  <2>4. \A k \in 1 .. n - 1 : p[2][k] = q[2][k]
    <3>1. TAKE k \in 1 .. n - 1
    <3>2. k \in 1 .. n /\ k \in Positions
      BY KeyedCipherAssumption DEF Positions
    <3>3. QED BY <2>1, <2>2, <2>3, <3>2 DEF Anonymized
  <2>5. p[1][n] = q[1][n] <=> p[2][n] = q[2][n]
    <3>1. n \in 1 .. n /\ n - 1 \in Nat
      BY KeyedCipherAssumption DEF Positions
    <3>2. p[1][n] \in Bit /\ q[1][n] \in Bit /\ prf[Padded(p[1], n - 1)] \in Bit
      BY <2>1, <2>2, <3>1, PaddedType DEF Address, IInv
    <3>3. /\ p[2][n] = Xor(prf[Padded(p[1], n - 1)], p[1][n])
          /\ q[2][n] = Xor(prf[Padded(p[1], n - 1)], q[1][n])
      BY <2>2, <2>3, <3>1 DEF Anonymized
    <3>4. QED BY <3>2, <3>3, XorCancels
  <2>6. QED BY <2>4, <2>5
<1>2. QED BY <1>1, Invariant, PTL
=============================================================================
