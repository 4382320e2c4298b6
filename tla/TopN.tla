-------------------------------- MODULE TopN --------------------------------
(***************************************************************************)
(* The module topn: the N largest flows, ports, source addresses and       *)
(* networks of an interval, for all flows and for each watched port.  An   *)
(* alarm asks for a report; the loop prints it behind the next record and  *)
(* begins a new interval.  Flows and ports are meant to be accurate;       *)
(* addresses are kept in small hash tables that sample and forget.         *)
(***************************************************************************)
EXTENDS Integers, Sequences, FiniteSets, SequencesExt, FiniteSetsExt, Functions

CONSTANTS
  Records,          \* the flows: [src, sport, dport, packets, bytes]
  Configs,          \* the option settings: [n, ports, net4, net6]
  Rows, RowOf(_),   \* the rows of the tables, the row an address hashes to
  FlowCols,         \* the columns of a table of flows
  PabCols,          \* the columns of a table of packets and bytes
  FlowsMultiplier, FlowsBigBase, FlowsBigMultiplier, PabBase, PabMultiplier,
  ByteBits,         \* the bits of a byte of an address
  Width,            \* what a 32-bit number wraps around at
  InputsOf(_),      \* the flows a setting is run with
  MaxRecordsOf(_),  \* bound on the records of an interval
  MaxAge            \* bound on the age of an interval, in units of 8 seconds

\* Tables have columns, and numbers and bytes have bits.
TopNTyped ==
  /\ FlowCols \in Nat \ {0} /\ PabCols \in Nat \ {0} /\ Width \in Nat \ {0}
  /\ ByteBits \in Nat \ {0} /\ MaxAge \in Nat

VARIABLES
  config,      \* the options
  pc,          \* where main is
  top,         \* the arrays of the largest flows, by scope and measure
  ports,       \* the counters of the ports, by scope
  tables,      \* the tables of addresses, by kind and scope
  totals,      \* the records of the interval, and their packets and bytes
  printStats,  \* the alarm has gone off
  armed,       \* the alarm is set
  age,         \* the time since the interval began
  heard,       \* history: how often each record came in the interval
  report       \* the report just printed, if any

vars == <<config, pc, top, ports, tables, totals, printStats, armed, age, heard, report>>

All      == 0                          \* the scope of all flows
Scopes   == {All} \cup config.ports
Measures == {"bytes", "packets"}
Fields   == {"flows", "packets", "bytes"}
Kinds    == {"ip", "net4", "net6"}
PortNos  == {r.sport : r \in Records} \cup {r.dport : r \in Records}
NoReport == [heard |-> [r \in Records |-> 0], flows |-> <<>>, ports |-> <<>>, ips |-> <<>>]

(***************************************************************************)
(* The largest flows.  A slot holds a flow, order lists the slots that are *)
(* in use from the smallest flow to the largest.                           *)
(***************************************************************************)
Truncated(n) == n % Width

EmptyTop   == [slot |-> <<>>, order |-> <<>>]
EmptyPorts == [p \in PortNos |-> [f \in Fields |-> 0]]
EmptyTable == [row \in Rows |-> <<>>]

Number(t, i, m) == Truncated(t.slot[t.order[i]][m])

\* The index (from 0) of the last flow smaller than key, -1 for none: a binary
\* search that walks down from an equal flow.  The cases of two and three flows,
\* written out in the code, give what the search gives.
GetArrayIndex(t, key, m) ==
  LET num(i) == Number(t, i + 1, m)
      n == Len(t.order)
      search[first \in 0 .. n, last \in -1 .. n - 1] ==
        LET middle == (first + last) \div 2
        IN IF first > last THEN first - 1
           ELSE IF num(middle) < key THEN search[middle + 1, last]
           ELSE IF num(middle) > key THEN search[first, middle - 1]
           ELSE Max({-1} \cup {i \in 0 .. middle - 1 : num(i) # key})
  IN IF num(0) > key THEN -1 ELSE IF n = 1 THEN 0 ELSE search[0, n - 1]

\* Mutant: the flow that takes the place of the smallest keeps its rank.
ProcessFlowsUnsorted(t, r, m, n) ==
  IF Len(t.order) < n
    THEN [slot |-> Append(t.slot, r), order |-> Append(t.order, Len(t.slot) + 1)]
    ELSE [t EXCEPT !.slot[t.order[1]] = r]

ProcessFlows(t, r, m, n) ==
  LET index == IF t.order = <<>> THEN -1 ELSE GetArrayIndex(t, Truncated(r[m]), m)
      new   == Len(t.slot) + 1
      smallest == t.order[1]
  IN IF Len(t.order) < n
       THEN [slot |-> Append(t.slot, r), order |-> InsertAt(t.order, index + 2, new)]
     ELSE IF index = -1 THEN t
     ELSE [slot  |-> [t.slot EXCEPT ![smallest] = r],
           order |-> Tail(InsertAt(t.order, index + 2, smallest))]

(***************************************************************************)
(* The ports.  For all flows both ends count; for a watched port the other *)
(* end does.                                                               *)
(***************************************************************************)
Ends(r, scope) ==
  IF scope = All THEN <<r.dport, r.sport>>
  ELSE (IF r.dport = scope THEN <<r.sport>> ELSE <<>>)
       \o (IF r.sport = scope THEN <<r.dport>> ELSE <<>>)

Share(r, f) == IF f = "flows" THEN 1 ELSE r[f]

Times(x, seq) == Cardinality({i \in DOMAIN seq : seq[i] = x})

CountPorts(counters, r, scope) ==
  [p \in PortNos |-> [f \in Fields |->
     counters[p][f] + Times(p, Ends(r, scope)) * Share(r, f)]]

(***************************************************************************)
(* The addresses.  A row lists its entries from the one used last.         *)
(***************************************************************************)
Entry(key, r) == [key |-> key, src |-> r.src, flows |-> 1,
                  packets |-> r.packets, bytes |-> r.bytes]

Added(entry, r) == [entry EXCEPT !.flows = @ + 1, !.packets = @ + r.packets,
                                 !.bytes = @ + r.bytes]

Holds(row, key)   == \E i \in DOMAIN row : row[i].key = key
EntryOf(row, key) == SelectSeq(row, LAMBDA e : e.key = key)[1]
Without(row, key) == SelectSeq(row, LAMBDA e : e.key # key)

\* fht_insert: a full row loses the entry not used for longest.
Insert(table, entry) ==
  LET row == table[RowOf(entry.key)]
      kept == IF Len(row) < FlowCols THEN row ELSE Front(row)
  IN IF Holds(row, entry.key) THEN table
     ELSE [table EXCEPT ![RowOf(entry.key)] = <<entry>> \o kept]

\* The tables of flows.  A new address is let in by chance; one that pushes
\* another out takes the small ones of its row along, and a large one that was
\* pushed out comes back under the address of its first flow.
ProcessIpFlows(table, ip, r, sampled) ==
  LET row    == table[RowOf(ip)]
      time   == age \div 2 + 1
      lost   == Last(row)
      kept   == SelectSeq(Front(row), LAMBDA e : e.flows >= FlowsMultiplier * time)
      pushed == [table EXCEPT ![RowOf(ip)] = <<Entry(ip, r)>> \o kept]
  IN IF Holds(row, ip)
       THEN [table EXCEPT ![RowOf(ip)] =
               <<Added(EntryOf(row, ip), r)>> \o Without(row, ip)]
     ELSE IF ~sampled THEN table
     ELSE IF Len(row) < FlowCols THEN Insert(table, Entry(ip, r))
     ELSE IF /\ Len(kept) < Len(row) - 1
             /\ lost.flows >= FlowsBigBase + time * FlowsBigMultiplier
       THEN Insert(pushed, [lost EXCEPT !.key = lost.src])
       ELSE pushed

\* The tables of packets and bytes.  A full row is freed of what is small against
\* the averages so far; the new address gets in if it is large against them.
ProcessIpPab(table, ip, r, average) ==
  LET row   == table[RowOf(ip)]
      limit == PabBase + (age + 1) * PabMultiplier
      kept  == SelectSeq(row, LAMBDA e :
                 \E m \in Measures : e[m] >= average[m] * limit)
      large == \/ r.packets > average.packets * PabBase
               \/ r.bytes > average.bytes * (PabBase * 2)
      into  == IF Len(row) < PabCols THEN row ELSE kept
  IN IF Holds(row, ip)
       THEN [table EXCEPT ![RowOf(ip)] =
               [i \in DOMAIN row |-> IF row[i].key = ip THEN Added(row[i], r) ELSE row[i]]]
     ELSE IF Len(row) < PabCols \/ (Len(kept) < Len(row) /\ large)
       THEN [table EXCEPT ![RowOf(ip)] = Append(into, Entry(ip, r))]
     ELSE [table EXCEPT ![RowOf(ip)] = into]

\* The network of an address.  The mask has its low bits set: of the byte the
\* prefix ends in, the low bits remain.
Masked(a, length) ==
  [a EXCEPT !.bytes = [i \in DOMAIN a.bytes |->
     LET bits == Min({Max({length - (i - 1) * ByteBits, 0}), ByteBits})
     IN a.bytes[i] % 2 ^ bits]]

PrefixOf(kind) == IF kind = "net4" THEN config.net4 ELSE config.net6

KeyOf(kind, r) == IF kind = "ip" THEN r.src ELSE Masked(r.src, PrefixOf(kind))

\* The kinds of tables a record goes into: a prefix of 0 stands for none.
KindsOf(r) ==
  {"ip"} \cup {k \in {IF r.src.version = 4 THEN "net4" ELSE "net6"} : PrefixOf(k) # 0}

ScopesOf(r) == {All} \cup (config.ports \cap {r.sport, r.dport})

Average(sums, m, scope) ==
  ((sums[m] \div sums.flows) % Width) \div (IF scope = All THEN 1 ELSE 3)

\* The tables that hold no flows of the address of r.
NewIn(r) == {t \in KindsOf(r) \X ScopesOf(r) :
  ~Holds(tables[t[1]][t[2]].flows[RowOf(KeyOf(t[1], r))], KeyOf(t[1], r))}

-----------------------------------------------------------------------------
Init ==
  /\ config \in Configs
  /\ pc = "receive"
  /\ top = [s \in Scopes |-> [m \in Measures |-> EmptyTop]]
  /\ ports = [s \in Scopes |-> EmptyPorts]
  /\ tables = [k \in Kinds |-> [s \in Scopes |-> [flows |-> EmptyTable, pab |-> EmptyTable]]]
  /\ totals = [f \in Fields |-> 0]
  /\ printStats = FALSE /\ armed = TRUE /\ age = 0
  /\ heard = NoReport.heard /\ report = NoReport

\* A record.  The average includes it; the tables draw lots for new addresses.
Receive(r, lots) ==
  /\ pc = "receive"
  /\ totals.flows < MaxRecordsOf(config)
  /\ heard' = [heard EXCEPT ![r] = @ + 1]
  /\ totals' = [f \in Fields |-> totals[f] + Share(r, f)]
  /\ tables' = [k \in Kinds |-> [s \in Scopes |->
       IF k \in KindsOf(r) /\ s \in ScopesOf(r)
         THEN [flows |-> ProcessIpFlows(tables[k][s].flows, KeyOf(k, r), r, <<k, s>> \in lots),
               pab   |-> ProcessIpPab(tables[k][s].pab, KeyOf(k, r), r,
                           [m \in Measures |-> Average(totals', m, s)])]
         ELSE tables[k][s]]]
  /\ top' = [s \in Scopes |-> IF s \in ScopesOf(r)
       THEN [m \in Measures |-> ProcessFlows(top[s][m], r, m, config.n)] ELSE top[s]]
  /\ ports' = [s \in Scopes |-> CountPorts(ports[s], r, s)]
  /\ pc' = "test"
  /\ report' = NoReport
  /\ UNCHANGED <<config, printStats, armed, age>>

\* The end of the stream, an error, or the signal to stop.
Leave ==
  /\ pc = "receive" /\ pc' = "final"
  /\ report' = NoReport
  /\ UNCHANGED <<config, top, ports, tables, totals, printStats, armed, age, heard>>

\* What a report shows: the flows from the largest, then the ports and the
\* addresses, sorted.  Nothing of a table is shown when no address was sampled.
TopFlows(t, m) == [i \in DOMAIN t.order |-> Number(t, Len(t.order) + 1 - i, m)]

TopPorts(counters, f) ==
  LET used == {p \in PortNos : counters[p][f] # 0}
      sorted == SetToSortSeq(used, LAMBDA p, q : counters[p][f] > counters[q][f])
  IN [i \in 1 .. Min({Len(sorted), config.n}) |->
        [port |-> sorted[i], count |-> counters[sorted[i]][f]]]

Entries(table) == UNION {Range(table[row]) : row \in Rows}

TopIps(table, f) ==
  LET shown == IF Entries(table.flows) = {} THEN {}
               ELSE IF f = "flows" THEN Entries(table.flows) ELSE Entries(table.pab)
      sorted == SetToSortSeq(shown, LAMBDA d, e : d[f] > e[f])
  IN SubSeq(sorted, 1, Min({Len(sorted), config.n}))

Printed ==
  [heard |-> heard,
   flows |-> [s \in Scopes |-> [m \in Measures |-> TopFlows(top[s][m], m)]],
   ports |-> [s \in Scopes |-> [f \in Fields |-> TopPorts(ports[s], f)]],
   ips   |-> [k \in {k \in Kinds : k = "ip" \/ PrefixOf(k) # 0} |-> [s \in Scopes |->
                [f \in Fields |-> TopIps(tables[k][s], f)]]]]

\* Behind a record, the loop looks whether a report is due.  The counters are
\* cleared and the alarm is set again.
Proceed ==
  /\ pc = "test" /\ ~printStats
  /\ pc' = "receive"
  /\ UNCHANGED <<config, top, ports, tables, totals, printStats, armed, age, heard, report>>

\* Mutant: the tables of networks are not cleared.
ClearedIps ==
  [tables EXCEPT !["ip"] = [s \in Scopes |-> [flows |-> EmptyTable, pab |-> EmptyTable]]]

Cleared ==
  [k \in Kinds |-> [s \in Scopes |->
     IF k = "ip" \/ PrefixOf(k) # 0 THEN [flows |-> EmptyTable, pab |-> EmptyTable]
                                     ELSE tables[k][s]]]

Report ==
  /\ pc = "test" /\ printStats
  /\ report' = Printed
  /\ top' = [s \in Scopes |-> [m \in Measures |-> EmptyTop]]
  /\ ports' = [s \in Scopes |-> EmptyPorts]
  /\ tables' = Cleared
  /\ totals' = [f \in Fields |-> 0]
  /\ heard' = NoReport.heard /\ printStats' = FALSE /\ armed' = TRUE /\ age' = 0
  /\ pc' = "receive"
  /\ UNCHANGED config

FinalReport ==
  /\ pc = "final" /\ pc' = "exit"
  /\ report' = Printed
  /\ UNCHANGED <<config, top, ports, tables, totals, printStats, armed, age, heard>>

SigHandler ==
  /\ armed /\ pc \in {"receive", "test"} /\ report = NoReport
  /\ armed' = FALSE /\ printStats' = TRUE
  /\ UNCHANGED <<config, pc, top, ports, tables, totals, age, heard, report>>

Tick ==
  /\ age < MaxAge /\ pc = "receive" /\ report = NoReport
  /\ age' = age + 1
  /\ UNCHANGED <<config, pc, top, ports, tables, totals, printStats, armed, heard, report>>

Next ==
  \/ \E r \in InputsOf(config) : \E lots \in SUBSET NewIn(r) : Receive(r, lots)
  \/ Leave \/ Proceed \/ Report \/ FinalReport \/ SigHandler \/ Tick

Spec == Init /\ [][Next]_vars

-----------------------------------------------------------------------------
\* What the records of a set, as often as they were heard, amount to.
Sum(times, set, Of(_)) == SumFunctionOnSet([r \in set |-> times[r] * Of(r)], set)

In(scope) == {r \in Records : scope = All \/ scope \in {r.sport, r.dport}}

\* seq holds the n largest of numbers of which there are Count(x) of x, the largest
\* first.
AreLargest(seq, numbers, Count(_), n) ==
  /\ \A i \in 1 .. Len(seq) - 1 : seq[i] >= seq[i + 1]
  /\ Len(seq) <= n
  /\ \A x \in Range(seq) \cup numbers :
       \/ Times(x, seq) = Count(x)
       \/ Len(seq) = n /\ Times(x, seq) < Count(x) /\ seq[n] >= x

Accurate(AsShown(_)) ==
  \A s \in DOMAIN report.flows :
    /\ \A m \in Measures :
         AreLargest(report.flows[s][m], {AsShown(r[m]) : r \in In(s)},
           LAMBDA x : Sum(report.heard, {r \in In(s) : AsShown(r[m]) = x}, LAMBDA r : 1),
           config.n)
    /\ \A f \in Fields :
         LET total == [p \in PortNos |->
               Sum(report.heard, In(s), LAMBDA r : Times(p, Ends(r, s)) * Share(r, f))]
             shown == report.ports[s][f]
         IN /\ AreLargest([i \in DOMAIN shown |-> shown[i].count], Range(total) \ {0},
                 LAMBDA x : Cardinality({p \in PortNos : total[p] = x}), config.n)
            /\ \A i \in DOMAIN shown : shown[i].count = total[shown[i].port]

\* Every report shows exactly the largest flows (by their 32-bit numbers) and ports
\* of its own interval and scope, whatever order they came in: nothing is carried
\* over a report and nothing is dropped or shown twice.  (topn/README.md promises
\* that flows and ports are accurate.)
ReportAccurate == Accurate(Truncated)

\* Packets and bytes are exact for every address of a row that was never asked to
\* hold more addresses than it has columns.
ExactWhileRoom ==
  \A k \in Kinds : \A s \in Scopes : \A row \in Rows :
    LET mine == {r \in In(s) : heard[r] > 0 /\ k \in KindsOf(r) /\ RowOf(KeyOf(k, r)) = row}
        keys == {KeyOf(k, r) : r \in mine}
    IN Cardinality(keys) <= PabCols =>
         /\ \A e \in Range(tables[k][s].pab[row]) : e.key \in keys
         /\ \A key \in keys : \E e \in Range(tables[k][s].pab[row]) :
              /\ e.key = key
              /\ \A f \in Fields :
                   e[f] = Sum(heard, {r \in mine : KeyOf(k, r) = key}, LAMBDA r : Share(r, f))

\* An address or network never shows more than its records of the interval amount
\* to, even when an entry was pushed out and came back under another key; no key
\* is held twice; and no row outgrows its columns.  A row that had room for all its
\* addresses has them exactly.
TablesNeverOvercount ==
  /\ ExactWhileRoom
  /\ \A k \in Kinds : \A s \in Scopes : \A row \in Rows :
    LET true(key, f) ==
          Sum(heard, {r \in In(s) : k \in KindsOf(r) /\ KeyOf(k, r) =
                        (IF k = "ip" THEN key ELSE Masked(key, PrefixOf(k)))},
              LAMBDA r : Share(r, f))
    IN \A which \in {"flows", "pab"} : LET table == tables[k][s][which][row] IN
         /\ Len(table) <= IF which = "flows" THEN FlowCols ELSE PabCols
         /\ \A i \in DOMAIN table :
              /\ Len(Without(table, table[i].key)) = Len(table) - 1
              /\ \A f \in Fields : table[i][f] <= true(table[i].key, f)
=============================================================================
