---------------------------- MODULE KeyedGroups ----------------------------
(***************************************************************************)
(* What the aggregation module promises, with no threads, locks, clocks or *)
(* templates: input records are numbered in the order in which they are    *)
(* decided; each joins the open group of its key, and a group leaves as a  *)
(* whole, either to the output or, when its send fails, to nowhere.  No    *)
(* record is in two groups, none is forgotten, no group mixes keys.        *)
(***************************************************************************)
EXTENDS Naturals

CONSTANT Keys   \* the aggregation keys

VARIABLES
  n,      \* how many input records have been decided
  open,   \* [Keys -> set of record numbers]: the group being built
  sent,   \* set of [key, ids]: the groups delivered to the output
  lost    \* the numbers of the records that reached no output

vars == <<n, open, sent, lost>>

Live == {k \in Keys : open[k] # {}}

Init ==
  /\ n = 0
  /\ open = [k \in Keys |-> {}]
  /\ sent = {}
  /\ lost = {}

\* The next record joins (or opens) the group of its key.
Accept(k) ==
  /\ n' = n + 1
  /\ open' = [open EXCEPT ![k] = @ \cup {n + 1}]
  /\ UNCHANGED <<sent, lost>>

\* The next record finds its key's group complete: that group is delivered
\* and the record opens the following one.
Restart(k) ==
  /\ open[k] # {}
  /\ n' = n + 1
  /\ sent' = sent \cup {[key |-> k, ids |-> open[k]]}
  /\ open' = [open EXCEPT ![k] = {n + 1}]
  /\ UNCHANGED lost

\* The next record is refused; what is open stays as it was.
Refuse ==
  /\ n' = n + 1
  /\ lost' = lost \cup {n + 1}
  /\ UNCHANGED <<open, sent>>

\* The groups of C leave together, those of D \subseteq C delivered.
Close(C, D) ==
  /\ open' = [k \in Keys |-> IF k \in C THEN {} ELSE open[k]]
  /\ sent' = sent \cup {[key |-> k, ids |-> open[k]] : k \in D}
  /\ lost' = lost \cup (UNION {open[k] : k \in C \ D})
  /\ UNCHANGED n

\* The process gives up: the next record and every open group are lost.
Abandon ==
  /\ n' = n + 1
  /\ lost' = lost \cup {n + 1} \cup (UNION {open[k] : k \in Keys})
  /\ open' = [k \in Keys |-> {}]
  /\ UNCHANGED sent

Next ==
  \/ \E k \in Keys : Accept(k) \/ Restart(k)
  \/ Refuse
  \/ \E C \in SUBSET Live : \E D \in SUBSET C : Close(C, D)
  \/ Abandon

Spec == Init /\ [][Next]_vars
=============================================================================
