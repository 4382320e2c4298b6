--------------------------- MODULE MCTopNCryptoPAn ---------------------------
(***************************************************************************)
(* Two modules that share nothing, in one run: a behaviour is of the       *)
(* library of anonymizer (CryptoPAn) or of topn, and the variables of the  *)
(* other one stay as they are.                                             *)
(*                                                                         *)
(* For topn, addresses of two bytes of two bits; rows are chosen by the    *)
(* second byte, so that three addresses overflow a row.  Networks of three *)
(* bits cut the second byte.  The ranking of flows is checked apart, with  *)
(* the flows of a single address.                                          *)
(* For CryptoPAn, addresses of three bits in bytes of two; ciphers that    *)
(* tell one address from the rest, that depend on every bit, and that      *)
(* favour one value.                                                       *)
(***************************************************************************)
EXTENDS CryptoPAn, Sequences

CONSTANTS
  Records, Configs, Rows, RowOf(_), FlowCols, PabCols, FlowsMultiplier, FlowsBigBase,
  FlowsBigMultiplier, PabBase, PabMultiplier, Width, InputsOf(_), MaxRecordsOf(_), MaxAge

VARIABLES
  active,   \* the one of this behaviour
  config, pc, top, ports, tables, totals, printStats, armed, age, heard, report

topn == <<config, pc, top, ports, tables, totals, printStats, armed, age, heard, report>>

N == INSTANCE TopN

ASSUME TopNConstants == N!TopNTyped

TopNIdle ==
  /\ config = "idle" /\ pc = "idle" /\ top = "idle" /\ ports = "idle" /\ tables = "idle"
  /\ totals = "idle" /\ printStats = "idle" /\ armed = "idle" /\ age = "idle"
  /\ heard = "idle" /\ report = "idle"

CryptoPAnIdle ==
  /\ prf = [a \in Address |-> 0] /\ pad = Zeros /\ mode = "idle" /\ addr = Zeros
  /\ pos = 0 /\ result = Zeros /\ orig = Zeros /\ anonymized = {} /\ restored = {}

MCInit ==
  \/ active = "cryptopan" /\ Init /\ TopNIdle
  \/ active = "topn" /\ N!Init /\ CryptoPAnIdle

MCNext ==
  \/ active = "cryptopan" /\ Next /\ UNCHANGED <<active, topn>>
  \/ active = "topn" /\ N!Next /\ UNCHANGED <<active, vars>>

MCSpec == MCInit /\ [][MCNext]_<<active, vars, topn>>

\* topn: every report shows exactly the largest flows and ports of its interval.
ReportAccurate == active = "topn" => N!ReportAccurate

\* topn: no address shows more than its records amount to.
TablesNeverOvercount == active = "topn" => N!TablesNeverOvercount

-----------------------------------------------------------------------------
v4(a, b) == [version |-> 4, bytes |-> <<a, b>>]
v6(a, b) == [version |-> 6, bytes |-> <<a, b>>]

Flow(src, sport, dport, packets, bytes) ==
  [src |-> src, sport |-> sport, dport |-> dport, packets |-> packets, bytes |-> bytes]

Crowd == {Flow(v4(1, 3), 80, 53, 1, 2), Flow(v4(3, 1), 53, 53, 2, 1),
          Flow(v4(0, 1), 80, 9, 9, 1)}
Pair  == {Flow(v4(1, 1), 80, 80, 1, 3), Flow(v6(3, 1), 53, 80, 1, 1),
          Flow(v6(3, 3), 53, 9, 2, 1)}
Sizes == {Flow(v4(1, 1), 80, 53, p, b) : <<p, b>> \in {<<1, 1>>, <<2, 9>>, <<3, 4>>}}

MCRecords == Crowd \cup Pair \cup Sizes

MCConfigs ==
  {[n |-> 2, ports |-> {}, net4 |-> 3, net6 |-> 0],
   [n |-> 1, ports |-> {80}, net4 |-> 1, net6 |-> 3],
   [n |-> 4, ports |-> {}, net4 |-> 0, net6 |-> 0]}

MCInputsOf(c) == CASE c.n = 2 -> Crowd [] c.n = 1 -> Pair [] c.n = 4 -> Sizes
MCMaxRecordsOf(c) == CASE c.n = 2 -> 4 [] c.n = 1 -> 2 [] c.n = 4 -> 5

MCRows == {0, 1}
MCRowOf(a) == a.bytes[2] % 2

MCCiphers ==
  {[a \in Address |-> IF a = Zeros THEN 1 ELSE 0],
   [a \in Address |-> Xor(a[1], Xor(a[2], a[3]))],
   [a \in Address |-> IF a[1] = 1 \/ a[2] = a[3] THEN 1 ELSE 0]}
=============================================================================
