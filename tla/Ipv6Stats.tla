----------------------------- MODULE Ipv6Stats -----------------------------
(***************************************************************************)
(* The module ipv6stats: flows and distinct addresses of a short and a     *)
(* long window, written to files when a record is past the window's end,   *)
(* when nothing comes for a while, and on exit.  The Bloom filters are     *)
(* taken to answer truly.                                                  *)
(***************************************************************************)
EXTENDS Integers, Sequences, FiniteSets

CONSTANTS
  V4Sources, V6Sources,   \* addresses; those of IPv6 are [p48, p64, host]
  TunnelTypes,   \* what IPV6_TUN_TYPE may hold
  Sizes,         \* what -s and -l may say: [short, long]
  MaxSeconds, MaxFlows    \* bounds on the time and on the records

\* Main refuses other sizes (what -L makes of the long one it does not check).
SizesChecked ==
  Sizes \subseteq [short : Nat \ {0}, long : Nat \ {0}] /\ MaxSeconds \in Nat

VARIABLES
  size, noLast,  \* -s and -l, and -n
  loop,      \* where main is
  initFlag,  \* no record has been looked at
  inactive, wait,   \* nothing came in time; how long a receive waits
  ends,      \* end_of_window
  flows,     \* ipv4cnt, ipv6cnt and tunnel_cnt: [class -> flows]
  uni,       \* [window -> [kind -> how many were counted]]
  filters,   \* [window -> [kind -> set]], the Bloom filters
  results,   \* the files: [window -> uni when it was written]
  window,    \* history: [window -> the records since it was cleared]
  came       \* history: how many records came

vars == <<size, noLast, loop, initFlag, inactive, wait, ends, flows, uni, filters, results, window, came>>

Windows == {"short", "long"}
Kinds   == {"ipv4", "ipv6", "p64", "p48"}
Tunnels == <<"native", "teredo", "isatap", "6to4", "ayiya", "proto41", "6over4">>
TunnelTypeCount == Len(Tunnels)
Classes == {"ipv4", "ipv6"} \cup {Tunnels[i] : i \in DOMAIN Tunnels}
None    == [k \in Kinds |-> 0]
Empty   == [k \in Kinds |-> {}]

Init ==
  /\ size \in Sizes /\ noLast \in BOOLEAN
  /\ loop = "receive" /\ initFlag = TRUE /\ inactive = FALSE /\ wait = "default"
  /\ ends = [w \in Windows |-> 0]
  /\ flows = [c \in Classes |-> 0]
  /\ uni = [w \in Windows |-> None] /\ filters = [w \in Windows |-> Empty]
  /\ results = [w \in Windows |-> None]
  /\ window = [w \in Windows |-> {}] /\ came = 0

GetClosestWindowEnd(t, s) == t - (t % s) + s

\* The number of bits of the type.
TunnelId(type) == Cardinality({b \in 0 .. TunnelTypeCount - 1 : 2 ^ b <= type})

-----------------------------------------------------------------------------
(* One source address in the filters: [filters, uni] after it.             *)

\* Mutant: the short filter is not told of an address that is new to the long one.
AddV4Long(s, a) ==
  LET seen(w) == a \in s.filters[w].ipv4
      new(w) == IF w = "long" THEN ~seen(w) ELSE ~seen("long") \/ ~seen("short")
  IN [filters |-> [w \in Windows |-> IF w = "long" \/ seen("long")
                     THEN [s.filters[w] EXCEPT !.ipv4 = @ \cup {a}] ELSE s.filters[w]],
      uni |-> [w \in Windows |-> [s.uni[w] EXCEPT !.ipv4 = @ + IF new(w) THEN 1 ELSE 0]]]

\* What is new to the long filter is taken to be new to the short one.
AddV4(s, a) ==
  LET seen(w) == a \in s.filters[w].ipv4
      new(w) == IF w = "long" THEN ~seen(w) ELSE ~seen("long") \/ ~seen("short")
  IN [filters |-> [w \in Windows |-> [s.filters[w] EXCEPT !.ipv4 = @ \cup {a}]],
      uni |-> [w \in Windows |-> [s.uni[w] EXCEPT !.ipv4 = @ + IF new(w) THEN 1 ELSE 0]]]

\* An address that is known is of known prefixes.
AddV6(s, a) ==
  LET value == [ipv6 |-> a, p64 |-> <<a.p48, a.p64>>, p48 |-> a.p48]
      order == <<"ipv6", "p64", "p48">>
      asked(w, j) == \A i \in 1 .. j - 1 : value[order[i]] \notin s.filters[w][order[i]]
      new(w, j) == asked(w, j) /\ value[order[j]] \notin s.filters[w][order[j]]
      at(k) == CHOOSE j \in DOMAIN order : order[j] = k
  IN [filters |-> [w \in Windows |-> [k \in Kinds |->
        IF k # "ipv4" /\ asked(w, at(k)) THEN s.filters[w][k] \cup {value[k]} ELSE s.filters[w][k]]],
      uni |-> [w \in Windows |-> [k \in Kinds |->
        s.uni[w][k] + IF k # "ipv4" /\ new(w, at(k)) THEN 1 ELSE 0]]]

\* The flow of a tunnel of type 7 is written behind the counters, which is into
\* uni_ipv4 of the short window (its packets and bytes into those behind).
Stray(s, record) ==
  IF ~record.v6 /\ TunnelId(record.type) = TunnelTypeCount
  THEN [s EXCEPT !.uni.short.ipv4 = @ + 1, !.uni.long.ipv4 = @ + 1, !.uni.short.ipv6 = @ + 1]
  ELSE s

-----------------------------------------------------------------------------

\* flush_stats, clear_stats and the filters, of the windows that are over.
Flushed(over) ==
  [results |-> [w \in Windows |-> IF w \in over THEN uni[w] ELSE results[w]],
   uni     |-> [w \in Windows |-> IF w \in over THEN None ELSE uni[w]],
   filters |-> [w \in Windows |-> IF w \in over THEN Empty ELSE filters[w]],
   flows   |-> IF "short" \in over THEN [c \in Classes |-> 0] ELSE flows]

Record == [v6 : {FALSE}, src : V4Sources, type : TunnelTypes, enough : BOOLEAN]
          \cup [v6 : {TRUE}, src : V6Sources, type : {0}, enough : BOOLEAN]

\* A record: a window it is past the end of is flushed, and moves on by its size, once.
Process ==
  /\ loop = "receive" /\ came < MaxFlows
  /\ \E t \in 0 .. MaxSeconds, r \in Record :
       LET first == [w \in Windows |-> IF initFlag THEN GetClosestWindowEnd(t, size[w]) ELSE ends[w]]
           over == {w \in Windows : t >= first[w]}
           cleared == IF initFlag THEN Flushed(Windows) ELSE Flushed(over)
           added == IF ~r.enough THEN Stray(cleared, r)
                    ELSE IF r.v6 THEN AddV6(cleared, r.src) ELSE AddV4(Stray(cleared, r), r.src)
           id == IF r.v6 THEN 0 ELSE TunnelId(r.type)
           tunnel == IF id < TunnelTypeCount /\ (r.v6 \/ id > 0) THEN {Tunnels[id + 1]} ELSE {}
       IN /\ ends' = [w \in Windows |-> IF w \in over THEN first[w] + size[w] ELSE first[w]]
          /\ results' = IF initFlag THEN results ELSE cleared.results
          /\ filters' = added.filters /\ uni' = added.uni
          /\ flows' = [c \in DOMAIN cleared.flows |->
               cleared.flows[c] + IF c \in ({IF r.v6 THEN "ipv6" ELSE "ipv4"} \cup tunnel) THEN 1 ELSE 0]
          /\ window' = [w \in Windows |->
               (IF initFlag \/ w \in over THEN {} ELSE window[w]) \cup {[num |-> came + 1, r |-> r]}]
  /\ initFlag' = FALSE /\ inactive' = FALSE
  /\ wait' = IF inactive THEN "default" ELSE wait
  /\ came' = came + 1
  /\ UNCHANGED <<size, noLast, loop>>

\* Nothing for 40 seconds: the windows are flushed before their end, and move on.
InactiveFlush ==
  /\ loop = "receive" /\ ~inactive
  /\ LET f == Flushed(Windows)
     IN results' = f.results /\ uni' = f.uni /\ filters' = f.filters /\ flows' = f.flows
  /\ ends' = [w \in Windows |-> ends[w] + size[w]]
  /\ window' = [w \in Windows |-> {}]
  /\ inactive' = TRUE /\ wait' = "short"
  /\ UNCHANGED <<size, noLast, loop, initFlag, came>>

\* Nothing for a short window more: zeros are written.  The filters stay as they are.
InactiveZeros ==
  /\ loop = "receive" /\ inactive /\ wait = "short"
  /\ LET f == Flushed(Windows) IN results' = f.results /\ uni' = f.uni /\ flows' = f.flows
  /\ ends' = [w \in Windows |-> ends[w] + size[w]]
  /\ window' = [w \in Windows |-> {}]
  /\ wait' = "forever"
  /\ UNCHANGED <<size, noLast, loop, initFlag, inactive, filters, came>>

\* The record that brings a format is not looked at: the result is not TRAP_E_OK.
NotOk ==
  /\ loop = "receive" /\ came < MaxFlows
  /\ came' = came + 1
  /\ UNCHANGED <<size, noLast, loop, initFlag, inactive, wait, ends, flows, uni, filters, results, window>>

\* Terminated, the end of the input or a record of another size.
Leave ==
  /\ loop = "receive"
  /\ loop' = "exit"
  /\ results' = IF noLast THEN results ELSE uni
  /\ UNCHANGED <<size, noLast, initFlag, inactive, wait, ends, flows, uni, filters, window, came>>

Next == Process \/ InactiveFlush \/ InactiveZeros \/ NotOk \/ Leave

Spec == Init /\ [][Next]_vars

-----------------------------------------------------------------------------

Strays(w) == \E e \in window[w] : ~e.r.v6 /\ TunnelId(e.r.type) = TunnelTypeCount

\* What is counted as distinct is: the sources and prefixes of the records of the
\* window, so far.  The short window relies on the filter of the long one, which may be
\* cleared only together with its own: true as long as the long size is a multiple of
\* the short one (which the help calls a matter of performance).  The flows by class are
\* those of the short window.
UniquesExact ==
  size["long"] % size["short"] = 0 /\ ~Strays("short") /\ ~Strays("long") =>
    /\ \A w \in Windows :
         LET v4 == {e.r.src : e \in {e \in window[w] : e.r.enough /\ ~e.r.v6}}
             v6 == {e.r.src : e \in {e \in window[w] : e.r.enough /\ e.r.v6}}
         IN uni[w] = [ipv4 |-> Cardinality(v4), ipv6 |-> Cardinality(v6),
                      p64 |-> Cardinality({<<a.p48, a.p64>> : a \in v6}),
                      p48 |-> Cardinality({a.p48 : a \in v6})]
    /\ flows["ipv4"] + flows["ipv6"] = Cardinality(window["short"])
    /\ flows["native"] = flows["ipv6"]
=============================================================================
