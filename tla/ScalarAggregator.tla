-------------------------- MODULE ScalarAggregator --------------------------
(***************************************************************************)
(* The scalar aggregator (scalar-aggregator/aggregator.c): every flow is   *)
(* saved in the database of each rule, output by output, and when one of   *)
(* them is too short for it, the oldest windows of all are sent out as one *)
(* record per output and the save is tried again.                          *)
(*                                                                         *)
(* rule_create rejects every rule with a filter (it takes the memory it    *)
(* gets for the filter for a failure), so every rule sees every flow.      *)
(***************************************************************************)
EXTENDS TimeDB, Sequences, FiniteSetsExt

CONSTANTS
  Rules,     \* the rules in their order: a sequence of [out, uniq]
  Inputs,    \* the flows that may arrive: [first, last, value, key]
  MaxFlows,  \* bound on the flows received
  MaxEnd     \* bound: how far (in seconds) the databases are rolled once a
             \* flush was cut short

RuleIds == DOMAIN Rules
Outputs == 1 .. Rules[Len(Rules)].out
RulesOf(o) == {r \in RuleIds : Rules[r].out = o}

\* The rules come output by output, and every output has a first one.
ASSUME ScalarAssumption ==
  /\ Rules \in Seq([out : Nat, uniq : BOOLEAN])
  /\ Len(Rules) > 0 /\ Rules[1].out = 1
  /\ \A r, s \in RuleIds : r <= s => Rules[r].out <= Rules[s].out
  /\ \A o \in Outputs : \E r \in RulesOf(o) : \A s \in RulesOf(o) : r <= s
  /\ \A f \in Inputs : /\ f.first \in Nat /\ f.last \in Nat /\ f.value \in Int
                      /\ 2 * Step <= f.first /\ f.first <= f.last
  /\ \A f \in Inputs : IF f.first < f.last THEN f.value % (f.last - f.first) = 0
                                            ELSE f.value > 0  \* not 0 / 0
  /\ MaxFlows \in Nat /\ MaxEnd \in Nat

VARIABLES
  stop,
  pc,         \* where main is
  at,         \* the rule being served
  timedbInitialized,
  db,         \* [RuleIds -> database]
  flows,      \* history: the flows received; main works on the last one
  rows,       \* history: the records composed for the outputs
  restarted,  \* history: the rules whose database was initialised again
  broken      \* history: a send error cut a flush short

vars == <<stop, pc, at, timedbInitialized, db, flows, rows, restarted, broken>>

Current == flows[Len(flows)]

Init ==
  /\ stop = FALSE
  /\ pc = "recv"
  /\ at = 0
  /\ timedbInitialized = FALSE
  /\ db = [r \in RuleIds |-> Create(Rules[r].uniq)]
  /\ flows = <<>>
  /\ rows = <<>>
  /\ restarted = {}
  /\ broken = FALSE

\* The signal handler; it ends every receive and every send (trap_terminate).
Signal ==
  /\ pc \notin {"exited", "crashed"}
  /\ ~stop
  /\ stop' = TRUE
  /\ UNCHANGED <<pc, at, timedbInitialized, db, flows, rows, restarted, broken>>

\* A flow arrives.  The first one initialises the databases of all rules.
Receive ==
  /\ pc = "recv"
  /\ ~stop
  /\ Len(flows) < MaxFlows
  /\ \E f \in Inputs :
       /\ flows' = Append(flows, f)
       /\ db' = IF timedbInitialized THEN db
                ELSE [r \in RuleIds |-> TimedbInit(db[r], Sec(f.first))]
  /\ timedbInitialized' = TRUE
  /\ at' = 1
  /\ pc' = "save"
  /\ UNCHANGED <<stop, rows, restarted, broken>>

\* stop, the end of the input, or an error of the receive.  What is left in
\* the databases is not sent.
Leave ==
  /\ pc = "recv"
  /\ pc' = "exited"
  /\ UNCHANGED <<stop, at, timedbInitialized, db, flows, rows, restarted, broken>>

NoteRestart ==
  restarted' = IF Inactive(db[at], Current) THEN restarted \cup {at} ELSE restarted

\* rule_save_data of rule number at.
Save ==
  /\ pc = "save"
  /\ LET d == Prepared(db[at], Current) IN
       /\ ~NeedsRollout(d, Current)
       /\ db' = [db EXCEPT ![at] = SaveData(d, Current, Len(flows))]
  /\ NoteRestart
  /\ IF at = Len(Rules) THEN pc' = "recv" /\ at' = 0
                        ELSE pc' = "save" /\ at' = at + 1
  /\ UNCHANGED <<stop, timedbInitialized, flows, rows, broken>>

\* Mutant: the flow is saved as far as it fits before the rollout.
SaveNeedsRolloutLate ==
  /\ pc = "save"
  /\ LET d == Prepared(db[at], Current) IN
       /\ NeedsRollout(d, Current)
       /\ db' = [db EXCEPT ![at] = SaveData(d, Current, Len(flows))]
  /\ NoteRestart
  /\ pc' = "flush"
  /\ UNCHANGED <<stop, at, timedbInitialized, flows, rows, broken>>

\* Mutant: the save is only tried again.
SaveRetriesOnly ==
  /\ pc = "save"
  /\ LET d == Prepared(db[at], Current) IN
       /\ NeedsRollout(d, Current)
       /\ db' = [db EXCEPT ![at] = d]
  /\ NoteRestart
  /\ UNCHANGED <<stop, pc, at, timedbInitialized, flows, rows, broken>>

\* TIMEDB_SAVE_NEED_ROLLOUT, with the database prepared all the same.
SaveNeedsRollout ==
  /\ pc = "save"
  /\ LET d == Prepared(db[at], Current) IN
       /\ NeedsRollout(d, Current)
       /\ db' = [db EXCEPT ![at] = d]
  /\ NoteRestart
  /\ pc' = "flush"
  /\ UNCHANGED <<stop, at, timedbInitialized, flows, rows, broken>>

\* A flow whose format lacks the rule's field, or has it in a type the rule
\* cannot aggregate, ends the process.
SaveFails ==
  /\ pc = "save"
  /\ pc' = "exited"
  /\ UNCHANGED <<stop, at, timedbInitialized, db, flows, rows, restarted, broken>>

\* The record of output o: TIME comes from the database of its first rule.
RowOf(o) ==
  [out |-> o, time |-> Oldest(db[Min(RulesOf(o))]).time,
   fields |-> [r \in RulesOf(o) |-> Oldest(db[r])]]

\* Mutant: only the rules of the output that needs it are rolled.
RollOutputsOwn(n) ==
  LET o == Rules[at].out IN
  /\ rows' = Append(rows, RowOf(o))
  /\ db' = [r \in RuleIds |-> IF Rules[r].out = o THEN Roll(db[r]) ELSE db[r]]

\* The databases of the outputs up to n are rolled.
RollOutputs(n) ==
  /\ rows' = rows \o [o \in 1 .. n |-> RowOf(o)]
  /\ db' = [r \in RuleIds |-> IF Rules[r].out <= n THEN Roll(db[r]) ELSE db[r]]

\* flush_aggregation_counters.  A send that times out loses the record; any
\* other error ends the loop over the outputs.  Once terminated, every send
\* is such an error.
Flush ==
  /\ pc = "flush"
  /\ broken => db[1].end < MaxEnd
  /\ \E n \in Outputs :
       /\ stop => n = 1
       /\ \A r \in RuleIds : Rules[r].out <= n => Rollable(db[r])
       /\ RollOutputs(n)
       /\ broken' = (broken \/ n < Rules[Len(Rules)].out)
  /\ pc' = "save"
  /\ UNCHANGED <<stop, at, timedbInitialized, flows, restarted>>

\* The roll of a database whose trees have never been made reads a null
\* pointer.
FlushCrashes ==
  /\ pc = "flush"
  /\ \E r \in RuleIds : ~Rollable(db[r]) /\ (stop => Rules[r].out = 1)
  /\ pc' = "crashed"
  /\ UNCHANGED <<stop, at, timedbInitialized, db, flows, rows, restarted, broken>>

Proceed == Save \/ SaveNeedsRollout \/ Flush \/ FlushCrashes

Next == Receive \/ Leave \/ SaveFails \/ Proceed \/ Signal

\* Main keeps running; once stop is set it leaves.
Fairness == WF_vars(Proceed) /\ WF_vars(stop /\ Leave)

Spec == Init /\ [][Next]_vars /\ Fairness
-----------------------------------------------------------------------------
\* Properties.

WindowType ==
  [begin : Nat, end : Nat, sum : Int, count : Nat,
   tree : SUBSET {f.key : f \in Inputs}, ids : SUBSET (1 .. Len(flows))]
OldestType ==
  [time : Nat, sum : Int, count : Nat, ids : SUBSET (1 .. Len(flows))]

\* Every variable has its type.
TypeOK ==
  /\ stop \in BOOLEAN
  /\ pc \in {"recv", "save", "flush", "exited", "crashed"}
  /\ at \in 0 .. Len(Rules)
  /\ timedbInitialized \in BOOLEAN
  /\ \A r \in RuleIds :
       /\ db[r].begin \in Nat /\ db[r].end \in Nat
       /\ db[r].dataBegin \in Slots
       /\ db[r].initialized \in BOOLEAN
       /\ \A s \in Slots : db[r].data[s] \in WindowType
  /\ flows \in Seq(Inputs)
  /\ \A n \in DOMAIN rows : \A r \in DOMAIN rows[n].fields :
       rows[n].fields[r] \in OldestType
  /\ restarted \subseteq RuleIds
  /\ broken \in BOOLEAN

\* Until a database is initialised again, its windows, read from the begin of
\* the ring, follow one another without a gap from begin to end.
RingInOrder ==
  timedbInitialized =>
    \A r \in RuleIds \ restarted :
      /\ RollingData(db[r], 0).begin = db[r].begin
      /\ RollingData(db[r], Size - 1).end = db[r].end
      /\ \A i \in Slots \ {0} :
           RollingData(db[r], i).begin = RollingData(db[r], i - 1).end

\* Until then, and while no send error cut a flush short, the databases of
\* all rules cover the same time: the fields of a record belong to its TIME.
InStep ==
  /\ TypeOK
  /\ restarted = {} /\ ~broken =>
    /\ \A r, s \in RuleIds : db[r].begin = db[s].begin /\ db[r].end = db[s].end
    /\ \A n \in DOMAIN rows : \A r \in DOMAIN rows[n].fields :
         rows[n].fields[r].time = rows[n].time

\* The records of one output have the times of successive windows: none comes
\* twice, none is left out, until a database of the output is initialised
\* again; they are read from rings that are in order.
RowsContiguous ==
  /\ RingInOrder
  /\ \A o \in Outputs :
    RulesOf(o) \cap restarted = {} =>
      \A m, n \in DOMAIN rows :
        /\ m < n /\ rows[m].out = o /\ rows[n].out = o
        /\ \A i \in m + 1 .. n - 1 : rows[i].out # o
        => rows[n].time = rows[m].time + Step

\* The counters of a window are those of the flows that were saved in it,
\* each taken once, however often the save was tried; a record takes them
\* over.
CountersOf(w, uniq) ==
  IF uniq THEN w.tree = {flows[i].key : i \in w.ids}
          ELSE w.count = Cardinality(w.ids)
CountedOnce ==
  \A r \in RuleIds \ restarted :
    /\ \A s \in Slots : CountersOf(db[r].data[s], Rules[r].uniq)
    /\ \A n \in DOMAIN rows : r \in DOMAIN rows[n].fields =>
         rows[n].fields[r].count =
           IF Rules[r].uniq THEN Cardinality({flows[i].key : i \in rows[n].fields[r].ids})
                            ELSE Cardinality(rows[n].fields[r].ids)

\* All that rule r ever summed up, in the records and still in its database.
TotalOf(r) ==
  SumFunction([n \in {k \in DOMAIN rows : r \in DOMAIN rows[k].fields} |-> rows[n].fields[r].sum])
  + SumFunction([s \in Slots |-> db[r].data[s].sum])

\* No flow starts before the first window, or Delay and more before the end
\* of a flow received earlier.
WithinDelay ==
  \A i \in DOMAIN flows :
    /\ Sec(flows[i].first) >= Sec(flows[1].first) - (Sec(flows[1].first) % Step)
    /\ \A j \in 1 .. i : Sec(flows[i].first) >= Sec(flows[j].last) - Delay

ValuesKept ==
  pc = "recv" /\ WithinDelay /\ ~broken =>
    \A r \in RuleIds \ restarted :
      TotalOf(r) = SumFunction([i \in DOMAIN flows |-> flows[i].value])

\* With a delay that covers the flows nothing is missed ("Some flows will be
\* missed if value is too small") and nothing is counted twice, for flows of
\* whole seconds that take any time at all.  A roll reads a tree that was never
\* made only while the first flow is processed.
WholeSecondsKept ==
  /\ pc = "crashed" => Len(flows) = 1
  /\ (\A i \in DOMAIN flows : /\ flows[i].first < flows[i].last
                           /\ flows[i].first % 2 = 0 /\ flows[i].last % 2 = 0)
  => ValuesKept

\* The rollouts for one flow come to an end, unless a send error cuts a flush
\* short (it may then never reach the database that needs it).
RolloutEnds == (pc = "save") ~> (pc \notin {"save", "flush"} \/ broken)
=============================================================================
